---- MODULE Spec2Model ----
(***************************************************************************)
(* A model of the adaptive feedback agent of the book publication          *)
(* pipeline (src/rl_agent.py): the EnhancedRLAgent object, its persisted   *)
(* JSON snapshot, and the operations the front end (src/app.py) invokes    *)
(* on the process-wide instance rl_agent; and of the generation pipeline   *)
(* (src/ai_agents.py): the API key check with its session cache, the two   *)
(* agents and batch_process, with the generation service as the source of  *)
(* nondeterminism; of two update calls that run at once on the shared      *)
(* agent; of speech playback (src/voice_support.py), a script thread and   *)
(* its worker threads stepping statement by statement over the globals    *)
(* and the speech engine; and of the session of the front end, its five    *)
(* fields and the handlers of its buttons.                                 *)
(*                                                                         *)
(* Representation.                                                         *)
(*  - A Python float is a fixed-point integer counted in 1/Unit.  The      *)
(*    texts and ratings of the model only produce values that are exact    *)
(*    in that unit (denominators divide Unit, halving twice is exact).     *)
(*  - A Python dict is a sequence of [k, v] items in insertion order       *)
(*    (max() and sorted() in the source depend on that order on ties).     *)
(*    A defaultdict(float) is the same items tagged t = "defaultdict".     *)
(*  - A text is a sequence of tokens: words, the terminators . ! ?, the    *)
(*    double quote, a blank, and the paragraph separator "\n\n".           *)
(*  - datetime.now() is a logical clock that advances at every reading.    *)
(*  - A function that calls the generation service is the set of the runs *)
(*    it can take, one for each outcome of each request it makes; a run    *)
(*    carries the value returned, the session cache and the requests made. *)
(***************************************************************************)
EXTENDS Integers, Sequences, FiniteSets, TLC

(* ------------------------------------------------------------------ *)
(* Numbers                                                             *)
(* ------------------------------------------------------------------ *)

\* The fixed-point scale of a float: 1.0 is Unit.
Unit == 240

One == Unit

\* 0.5, the factor of the Bad branch and the magnitude of its rating_weight
Half == Unit \div 2

\* a * b of two fixed-point numbers
Mul(a, b) == (a * b) \div Unit

\* n / d of two integers, as a fixed-point number
Frac(n, d) == (n * Unit) \div d

RECURSIVE ISqrtBetween(_, _, _)
ISqrtBetween(x, lo, hi) ==
    IF lo >= hi THEN lo
    ELSE LET mid == (lo + hi + 1) \div 2
         IN  IF mid * mid <= x THEN ISqrtBetween(x, mid, hi)
             ELSE ISqrtBetween(x, lo, mid - 1)

\* the integer part of the square root of x >= 0 (46340 is the largest root
\* of a 32-bit integer)
ISqrt(x) == ISqrtBetween(x, 0, IF x > 46340 THEN 46340 ELSE x)

RECURSIVE SumSeq(_)
SumSeq(s) == IF s = <<>> THEN 0 ELSE Head(s) + SumSeq(Tail(s))

\* np.mean of a non-empty list of integers
Mean(xs) == Frac(SumSeq(xs), Len(xs))

\* np.std (population standard deviation) of a non-empty list of integers
Std(xs) ==
    LET n  == Len(xs)
        sq == [i \in 1..n |-> xs[i] * xs[i]]
        d  == n * SumSeq(sq) - SumSeq(xs) * SumSeq(xs)
    IN  ISqrt(d * Unit * Unit) \div n

(* ------------------------------------------------------------------ *)
(* Texts                                                               *)
(* ------------------------------------------------------------------ *)

Space == " "
ParaBreak == "<nn>"
Quote == "<dq>"
Terminators == {".", "!", "?"}
Whitespace == {Space, ParaBreak}

\* the closed vocabulary of descriptive adjectives
Adjectives ==
    {"beautiful", "vivid", "mysterious", "elegant", "powerful", "gentle",
     "fierce", "ancient", "modern", "complex"}

\* the closed vocabulary of transition words
Transitions ==
    {"however", "therefore", "meanwhile", "suddenly", "finally", "moreover",
     "consequently", "furthermore"}

\* str.lower() of a token (the capitalised words the model's texts use)
Lower(w) ==
    CASE w = "However" -> "however"
      [] w = "Vivid" -> "vivid"
      [] OTHER -> w

\* a token made of \w characters
IsWord(tok) == tok \notin Terminators \cup Whitespace \cup {Quote}

RECURSIVE Ascending(_)
\* the numbers of the set S as an increasing sequence
Ascending(S) ==
    IF S = {} THEN <<>>
    ELSE LET m == CHOOSE a \in S : \A b \in S : a <= b
         IN  <<m>> \o Ascending(S \ {m})

\* the pieces of s between the tokens of Seps (empty pieces included)
SplitOn(s, Seps) ==
    LET cuts == <<0>> \o Ascending({i \in 1..Len(s) : s[i] \in Seps}) \o <<Len(s) + 1>>
    IN  [j \in 1..(Len(cuts) - 1) |-> SubSeq(s, cuts[j] + 1, cuts[j + 1] - 1)]

RECURSIVE LStrip(_)
LStrip(s) == IF s # <<>> /\ Head(s) \in Whitespace THEN LStrip(Tail(s)) ELSE s

RECURSIVE RStrip(_)
RStrip(s) ==
    IF s # <<>> /\ s[Len(s)] \in Whitespace THEN RStrip(SubSeq(s, 1, Len(s) - 1)) ELSE s

\* str.strip()
Strip(s) == LStrip(RStrip(s))

\* len(s.split()): the maximal runs of tokens that are not whitespace
WordCount(s) ==
    Cardinality({i \in 1..Len(s) :
        /\ s[i] \notin Whitespace
        /\ (i = 1 \/ s[i - 1] \in Whitespace)})

\* the positions where a maximal run of word tokens starts (a regex \b\w)
WordStarts(s) ==
    {i \in 1..Len(s) : IsWord(s[i]) /\ (i = 1 \/ ~IsWord(s[i - 1]))}

RECURSIVE RunChars(_, _)
\* the number of characters of the run of word tokens that starts at i
RunChars(s, i) ==
    IF i > Len(s) \/ ~IsWord(s[i]) THEN 0 ELSE Len(s[i]) + RunChars(s, i + 1)

\* re.findall(r'\b(?:w1|w2|...)\b', text.lower()): whole words of the vocabulary
VocabCount(s, Vocab) ==
    Cardinality({i \in WordStarts(s) :
        /\ Lower(s[i]) \in Vocab
        /\ (i = Len(s) \/ ~IsWord(s[i + 1]))})

\* DialogueCount with every quote counted, closed or not
DialogueCountQuotes(s) == Cardinality({i \in 1..Len(s) : s[i] = Quote})

\* re.findall(r'"[^"]*"', text): quoted spans, matched left to right
DialogueCount(s) == Cardinality({i \in 1..Len(s) : s[i] = Quote}) \div 2

\* re.findall(r'\b\w{8,}\b', text)
ComplexCount(s) == Cardinality({i \in WordStarts(s) : RunChars(s, i) >= 8})

\* the stripped, non-empty pieces of re.split(r'[.!?]+', text)
Sentences(text) ==
    LET parts == SplitOn(text, Terminators)
        keep  == Ascending({i \in 1..Len(parts) : Strip(parts[i]) # <<>>})
    IN  [j \in 1..Len(keep) |-> Strip(parts[keep[j]])]

\* the pieces of text.split('\n\n') that are not blank
Paragraphs(text) ==
    LET parts == SplitOn(text, {ParaBreak})
        keep  == Ascending({i \in 1..Len(parts) : Strip(parts[i]) # <<>>})
    IN  [j \in 1..Len(keep) |-> parts[keep[j]]]

(* ------------------------------------------------------------------ *)
(* Dicts                                                               *)
(* ------------------------------------------------------------------ *)

EmptyDict == <<>>

Item(k, v) == [k |-> k, v |-> v]

Keys(d) == {d[i].k : i \in 1..Len(d)}

HasKey(d, k) == k \in Keys(d)

IndexOf(d, k) == CHOOSE i \in 1..Len(d) : d[i].k = k

\* d[k] of a defaultdict(float): a missing key reads 0.0
Get(d, k) == IF HasKey(d, k) THEN d[IndexOf(d, k)].v ELSE 0

\* d[k] = v: an existing key keeps its place, a new key goes last
Put(d, k, v) ==
    IF HasKey(d, k) THEN [d EXCEPT ![IndexOf(d, k)].v = v]
    ELSE Append(d, Item(k, v))

\* d[k] += delta on a defaultdict(float)
AddTo(d, k, delta) == Put(d, k, Get(d, k) + delta)

\* extract_text_patterns
ExtractTextPatterns(text) ==
    LET sentences == Sentences(text)
        lens      == [i \in 1..Len(sentences) |-> WordCount(sentences[i])]
        words     == WordCount(text)
        paras     == Paragraphs(text)
        plens     == [i \in 1..Len(paras) |-> WordCount(paras[i])]
    IN  IF sentences = <<>> THEN EmptyDict
        ELSE << Item("avg_sentence_length", Mean(lens)),
                Item("sentence_variety", Std(lens)),
                Item("dialogue_density", Frac(DialogueCount(text), Len(sentences))),
                Item("descriptive_density",
                     IF words > 0 THEN Frac(VocabCount(text, Adjectives), words) ELSE 0),
                Item("transition_density", Frac(VocabCount(text, Transitions), Len(sentences))),
                Item("avg_paragraph_length", Mean(plens)),
                Item("complexity_score",
                     IF words > 0 THEN Frac(ComplexCount(text), words) ELSE 0) >>

\* max(d.items(), key=lambda x: x[1]): the first item of the largest value
MaxItem(d) ==
    d[CHOOSE i \in 1..Len(d) :
        /\ \A j \in 1..Len(d) : d[j].v <= d[i].v
        /\ \A j \in 1..(i - 1) : d[j].v < d[i].v]

\* d without its item at position i
RemoveAt(d, i) == SubSeq(d, 1, i - 1) \o SubSeq(d, i + 1, Len(d))

RECURSIVE SortedDesc(_)
\* sorted(d.items(), key=lambda x: x[1], reverse=True): stable on equal values
SortedDesc(d) ==
    IF d = <<>> THEN <<>>
    ELSE LET i == CHOOSE i \in 1..Len(d) :
                    /\ \A j \in 1..Len(d) : d[j].v <= d[i].v
                    /\ \A j \in 1..(i - 1) : d[j].v < d[i].v
         IN  <<d[i]>> \o SortedDesc(RemoveAt(d, i))

\* {k: v for k, v in d.items() if v > 0}
Positive(d) == SelectSeq(d, LAMBDA it : it.v > 0)

\* s[:n]
Take(s, n) == SubSeq(s, 1, IF Len(s) < n THEN Len(s) ELSE n)

\* s[-n:]
LastN(s, n) == SubSeq(s, IF Len(s) > n THEN Len(s) - n + 1 ELSE 1, Len(s))

RECURSIVE AddItems(_, _)
\* for k, delta in items: d[k] += delta
AddItems(d, items) ==
    IF items = <<>> THEN d
    ELSE AddItems(AddTo(d, Head(items).k, Head(items).v), Tail(items))

(* ------------------------------------------------------------------ *)
(* The agent's state and its snapshot                                  *)
(* ------------------------------------------------------------------ *)

\* the fields that hold a defaultdict(float)
WeightFields == {"pattern_weights", "style_preferences", "focus_area_effectiveness"}

StateFields ==
    {"feedback_history", "pattern_weights", "style_preferences",
     "focus_area_effectiveness", "successful_patterns", "total_feedback",
     "good_feedback_count"}

DefaultDict(items) == [t |-> "defaultdict", items |-> items]

PlainDict(items) == [t |-> "dict", items |-> items]

\* the state __init__ and reset_learning build
DefaultState ==
    [feedback_history |-> <<>>,
     pattern_weights |-> DefaultDict(EmptyDict),
     style_preferences |-> DefaultDict(EmptyDict),
     focus_area_effectiveness |-> DefaultDict(EmptyDict),
     successful_patterns |-> <<>>,
     total_feedback |-> 0,
     good_feedback_count |-> 0]

\* ResetState without the successful_patterns line
ResetStateKeepsPatterns(st) ==
    [DefaultState EXCEPT !.successful_patterns = st.successful_patterns]

\* the state reset_learning assigns; the old state st is dropped
ResetState(st) == DefaultState

\* an optional argument: None, or a value
None == [some |-> FALSE, val |-> <<>>]
Some(v) == [some |-> TRUE, val |-> v]

\* the object save_state hands to json.dump: a defaultdict becomes a dict
ToJson(st) ==
    [k \in DOMAIN st |->
        IF k \in WeightFields /\ st[k].t = "defaultdict" THEN PlainDict(st[k].items)
        ELSE st[k]]

NoFile == [kind |-> "none", data |-> [k \in {} |-> 0]]

\* a file that json.load cannot parse: a write that broke off after open(.., "w")
CorruptFile == [kind |-> "corrupt", data |-> [k \in {} |-> 0]]

JsonFile(data) == [kind |-> "json", data |-> data]

\* The outcomes of the two steps of a write: open(file_path, "w") raises and the
\* file is as it was; json.dump raises after the file was truncated; neither.
WriteOutcomes == {"ok", "open_raises", "dump_raises"}

\* SaveState with the file opened in mode "a": what is written follows what
\* the file held, and the two together do not parse
SaveStateAppends(st, dsk, w) ==
    CASE w = "ok" ->
            [disk |-> IF dsk.kind = "none" THEN JsonFile(ToJson(st)) ELSE CorruptFile,
             outcome |-> "ok"]
      [] w = "open_raises" -> [disk |-> dsk, outcome |-> "raised"]
      [] w = "dump_raises" -> [disk |-> CorruptFile, outcome |-> "raised"]

\* save_state: [disk, outcome]
SaveState(st, dsk, w) ==
    CASE w = "ok"          -> [disk |-> JsonFile(ToJson(st)), outcome |-> "ok"]
      [] w = "open_raises" -> [disk |-> dsk, outcome |-> "raised"]
      [] w = "dump_raises" -> [disk |-> CorruptFile, outcome |-> "raised"]

\* LoadState without the defaultdict(float, value) of the three weight fields
LoadStateRaw(st, dsk, w) ==
    CASE dsk.kind = "none" ->
            LET r == SaveState(st, dsk, w)
            IN  [state |-> st, disk |-> r.disk, outcome |-> r.outcome]
      [] dsk.kind = "corrupt" ->
            [state |-> st, disk |-> dsk, outcome |-> "raised"]
      [] dsk.kind = "json" ->
            [state |->
                [k \in DOMAIN st \cup DOMAIN dsk.data |->
                    IF k \in DOMAIN dsk.data THEN dsk.data[k] ELSE st[k]],
             disk |-> dsk, outcome |-> "ok"]

\* load_state: [state, disk, outcome]
LoadState(st, dsk, w) ==
    CASE dsk.kind = "none" ->
            \* FileNotFoundError: the present state is saved
            LET r == SaveState(st, dsk, w)
            IN  [state |-> st, disk |-> r.disk, outcome |-> r.outcome]
      [] dsk.kind = "corrupt" ->
            \* json.load raises before any field is assigned
            [state |-> st, disk |-> dsk, outcome |-> "raised"]
      [] dsk.kind = "json" ->
            [state |->
                [k \in DOMAIN st \cup DOMAIN dsk.data |->
                    IF k \in DOMAIN dsk.data
                    THEN IF k \in WeightFields
                         THEN DefaultDict(dsk.data[k].items)
                         ELSE dsk.data[k]
                    ELSE st[k]],
             disk |-> dsk, outcome |-> "ok"]

(* ------------------------------------------------------------------ *)
(* update                                                              *)
(* ------------------------------------------------------------------ *)

\* rating_weight = 1.0 if rating == "Good" else -0.5
RatingWeight(rating) == IF rating = "Good" THEN One ELSE -Half

\* KeyDelta without the 0.5 of the Bad branch
KeyDeltaUndamped(rating) == RatingWeight(rating)

\* what one update adds to style_preferences[style] and to each focus area
KeyDelta(rating) ==
    IF rating = "Good" THEN RatingWeight(rating)
    ELSE Mul(RatingWeight(rating), Half)

\* PatternDelta without the 0.5 of the Bad branch
PatternDeltaUndamped(rating, value) == Mul(RatingWeight(rating), value)

\* what one update adds to pattern_weights[name] for a feature of this value
PatternDelta(rating, value) ==
    IF rating = "Good" THEN Mul(RatingWeight(rating), value)
    ELSE Mul(Mul(RatingWeight(rating), value), Half)

\* focus_areas of update: None stands for []
FocusAreas(focus_areas_arg) == IF focus_areas_arg.some THEN focus_areas_arg.val ELSE <<>>

\* the feedback_record of update; now is the clock before the call
FeedbackRecord(now, rating, output, style_preference, focus_areas, text_patterns, metadata) ==
    [timestamp |-> now + 1,
     rating |-> rating,
     output_hash |-> Strip(output),
     style_preference |-> style_preference,
     focus_areas |-> focus_areas,
     text_patterns |-> text_patterns,
     word_count |-> WordCount(output),
     metadata |-> IF metadata.some THEN metadata.val ELSE <<>>]

\* the entry a Good update appends to successful_patterns
SuccessEntry(now, text_patterns, style_preference, focus_areas) ==
    [patterns |-> text_patterns,
     style |-> style_preference,
     focus_areas |-> focus_areas,
     timestamp |-> now + 2]

\* TrimHistory with history[:100] for history[-100:]
TrimHistoryOldest(history) ==
    IF Len(history) > 100 THEN Take(history, 100) ELSE history

\* keep only recent feedback history (last 100)
TrimHistory(history) ==
    IF Len(history) > 100 THEN LastN(history, 100) ELSE history

\* keep only recent successful patterns (last 50)
TrimPatterns(patterns) ==
    IF Len(patterns) > 50 THEN LastN(patterns, 50) ELSE patterns

\* LearnPatterns with the append outside the rating branch
LearnPatternsAnyRating(patterns, now, rating, text_patterns, style_preference, focus_areas) ==
    Append(patterns, SuccessEntry(now, text_patterns, style_preference, focus_areas))

\* successful_patterns after the rating branch of update
LearnPatterns(patterns, now, rating, text_patterns, style_preference, focus_areas) ==
    IF rating = "Good"
    THEN Append(patterns, SuccessEntry(now, text_patterns, style_preference, focus_areas))
    ELSE patterns

\* CountGood with the increment outside the rating branch
CountGoodAlways(count, rating) == count + 1

\* good_feedback_count after the rating branch of update
CountGood(count, rating) == IF rating = "Good" THEN count + 1 ELSE count

\* the body of update up to, not including, save_state; now is the clock
\* before the call
UpdateState(st, now, rating, output, style_preference, focus_areas_arg, metadata) ==
    LET focus_areas   == FocusAreas(focus_areas_arg)
        text_patterns == ExtractTextPatterns(output)
        history  == Append(st.feedback_history,
                           FeedbackRecord(now, rating, output, style_preference,
                                          focus_areas, text_patterns, metadata))
        pdeltas  == [i \in 1..Len(text_patterns) |->
                        Item(text_patterns[i].k, PatternDelta(rating, text_patterns[i].v))]
        fdeltas  == [i \in 1..Len(focus_areas) |-> Item(focus_areas[i], KeyDelta(rating))]
    IN  [feedback_history |-> TrimHistory(history),
         pattern_weights |->
             [st.pattern_weights EXCEPT !.items = AddItems(@, pdeltas)],
         style_preferences |->
             [st.style_preferences EXCEPT !.items = AddTo(@, style_preference, KeyDelta(rating))],
         focus_area_effectiveness |->
             [st.focus_area_effectiveness EXCEPT !.items = AddItems(@, fdeltas)],
         successful_patterns |->
             TrimPatterns(LearnPatterns(st.successful_patterns, now, rating,
                                        text_patterns, style_preference, focus_areas)),
         total_feedback |-> st.total_feedback + 1,
         good_feedback_count |-> CountGood(st.good_feedback_count, rating)]

\* the clock after an update: datetime.now() is read for the record and, on a
\* Good rating, once more for the successful_patterns entry; two ticks pass
ClockAfterUpdate(now) == now + 2

(* ------------------------------------------------------------------ *)
(* get_adaptive_prompt_instructions                                    *)
(* ------------------------------------------------------------------ *)

Line(what, arg) == [line |-> what, arg |-> arg]

\* "\n".join(f"- {instruction}" ...): the string as the sequence of its lines;
\* the empty sequence is the empty string
JoinBullets(instructions) ==
    [i \in 1..Len(instructions) |-> <<"- ", instructions[i]>>]

StyleInstructions(st) ==
    LET sp == st.style_preferences.items
    IN  IF sp # <<>> /\ MaxItem(sp).v > 0
        THEN <<Line("Focus on {style} writing style", MaxItem(sp).k)>>
        ELSE <<>>

PatternInstructions(st) ==
    LET positive == Positive(st.pattern_weights.items)
        top      == SortedDesc(positive)[1]
    IN  IF st.pattern_weights.items = <<>> \/ positive = <<>> THEN <<>>
        ELSE CASE top.k = "avg_sentence_length" ->
                    IF top.v > 2 * One
                    THEN <<Line("Use varied sentence lengths", "")>> ELSE <<>>
               [] top.k = "dialogue_density" ->
                    IF top.v > One
                    THEN <<Line("Include natural dialogue", "")>> ELSE <<>>
               [] top.k = "descriptive_density" ->
                    IF top.v > One
                    THEN <<Line("Use rich, descriptive language", "")>> ELSE <<>>
               [] top.k = "transition_density" ->
                    IF top.v > One
                    THEN <<Line("Use smooth transitions", "")>> ELSE <<>>
               [] OTHER -> <<>>

\* FocusInstructions without the cut to the first three areas
FocusInstructionsUncut(st, agent_type) ==
    LET effective == Positive(st.focus_area_effectiveness.items)
        top_areas == Keys(SortedDesc(effective))
        when(area, text) == IF area \in top_areas THEN <<Line(text, "")>> ELSE <<>>
    IN  IF effective = <<>> THEN <<>>
        ELSE CASE agent_type = "writer" ->
                    when("engagement", "Prioritize reader engagement")
                    \o when("style", "Pay special attention to style")
               [] agent_type = "reviewer" ->
                    when("grammar", "Thoroughly review grammar")
                    \o when("clarity", "Ensure exceptional clarity")
                    \o when("flow", "Optimize flow")
               [] OTHER -> <<>>

FocusInstructions(st, agent_type) ==
    LET effective == Positive(st.focus_area_effectiveness.items)
        top_areas == Keys(Take(SortedDesc(effective), 3))
        when(area, text) == IF area \in top_areas THEN <<Line(text, "")>> ELSE <<>>
    IN  IF effective = <<>> THEN <<>>
        ELSE CASE agent_type = "writer" ->
                    when("engagement", "Prioritize reader engagement")
                    \o when("style", "Pay special attention to style")
               [] agent_type = "reviewer" ->
                    when("grammar", "Thoroughly review grammar")
                    \o when("clarity", "Ensure exceptional clarity")
                    \o when("flow", "Optimize flow")
               [] OTHER -> <<>>

\* RateInstructions with >= 70 for > 70
RateInstructionsInclusive(st) ==
    LET good  == st.good_feedback_count
        total == st.total_feedback
    IN  IF 100 * good >= 70 * total
        THEN <<Line("Continue with the current approach", "")>>
        ELSE IF 100 * good < 50 * total
             THEN <<Line("Focus on fundamental quality improvements", "")>>
             ELSE <<>>

\* RateInstructions without the branch of a rate under 50
RateInstructionsHighOnly(st) ==
    IF 100 * st.good_feedback_count > 70 * st.total_feedback
    THEN <<Line("Continue with the current approach", "")>>
    ELSE <<>>

\* success_rate = good / total * 100, compared with 70 and with 50.  The float
\* comparison agrees with the exact one for every good <= total < 400.
RateInstructions(st) ==
    LET good  == st.good_feedback_count
        total == st.total_feedback
    IN  IF 100 * good > 70 * total
        THEN <<Line("Continue with the current approach", "")>>
        ELSE IF 100 * good < 50 * total
             THEN <<Line("Focus on fundamental quality improvements", "")>>
             ELSE <<>>

\* BelowMinimumFeedback with the threshold one too low
BelowMinimumFeedbackTwo(st) == st.total_feedback < 2

\* need minimum feedback to learn
BelowMinimumFeedback(st) == st.total_feedback < 3

GetAdaptivePromptInstructions(st, agent_type) ==
    IF BelowMinimumFeedback(st) THEN <<>>
    ELSE JoinBullets(StyleInstructions(st) \o PatternInstructions(st)
                     \o FocusInstructions(st, agent_type) \o RateInstructions(st))


(* ------------------------------------------------------------------ *)
(* get_smart_suggestions and get_learning_stats                        *)
(* ------------------------------------------------------------------ *)

\* the positions of the records rated Good
GoodIn(records) == {i \in 1..Len(records) : records[i].rating = "Good"}

RECURSIVE Gcd(_, _)
Gcd(a, b) == IF b = 0 THEN a ELSE Gcd(b, a % b)

\* (good / total) * 100 as a fraction in lowest terms; 0.0 is 0 / 1
SuccessRate(good, total) ==
    LET g == Gcd(100 * good, total)
    IN  [num |-> (100 * good) \div g, den |-> total \div g]

\* f"{x:.1f}" of x = num / den >= 0: the number of tenths, a tie going to the
\* even digit
FormatTenths(num, den) ==
    LET q == (10 * num) \div den
        r == (10 * num) % den
    IN  IF 2 * r > den \/ (2 * r = den /\ q % 2 = 1) THEN q + 1 ELSE q

\* Confidence without the cap at 1.0
ConfidenceUncapped(weight) == weight \div 5

\* min(best_style[1] / 5.0, 1.0)
Confidence(weight) == IF weight \div 5 < One THEN weight \div 5 ELSE One

\* recommended_style and confidence_score: [style, confidence]
BestStyle(st) ==
    LET sp == st.style_preferences.items
    IN  IF sp # <<>> /\ MaxItem(sp).v > 0
        THEN [style |-> MaxItem(sp).k, confidence |-> Confidence(MaxItem(sp).v)]
        ELSE [style |-> "modern", confidence |-> 0]

\* the keys of a list of items, in its order
KeyList(d) == [i \in 1..Len(d) |-> d[i].k]

\* BestFocusAreas without the sort by weight
BestFocusAreasUnsorted(st) ==
    LET fa == st.focus_area_effectiveness.items
        positive_areas == KeyList(Positive(fa))
    IN  IF fa # <<>> /\ positive_areas # <<>> THEN Take(positive_areas, 3)
        ELSE <<"grammar", "clarity", "flow">>

\* recommended_focus_areas
BestFocusAreas(st) ==
    LET fa == st.focus_area_effectiveness.items
        positive_areas == KeyList(Positive(SortedDesc(fa)))
    IN  IF fa # <<>> /\ positive_areas # <<>> THEN Take(positive_areas, 3)
        ELSE <<"grammar", "clarity", "flow">>

\* learning_insights
Insights(st) ==
    LET sp == SortedDesc(st.style_preferences.items)
        fa == Take(SortedDesc(st.focus_area_effectiveness.items), 3)
        pw == SortedDesc(st.pattern_weights.items)
        top_focus == Positive(fa)
    IN  (IF sp # <<>> /\ sp[1].v > 0
         THEN <<Line("'{style}' style performs best (weight: {w:.1f})",
                     <<sp[1].k, FormatTenths(sp[1].v, Unit)>>)>>
         ELSE <<>>)
        \o
        (IF top_focus # <<>>
         THEN <<Line("Most effective focus areas: {areas}",
                     [i \in 1..Len(top_focus) |->
                        <<top_focus[i].k, FormatTenths(top_focus[i].v, Unit)>>])>>
         ELSE <<>>)
        \o
        (IF pw # <<>> /\ pw[1].v > 0
         THEN <<Line("Successful pattern: {name} (weight: {w:.1f})",
                     <<pw[1].k, FormatTenths(pw[1].v, Unit)>>)>>
         ELSE <<>>)

GetSmartSuggestions(st) ==
    IF st.total_feedback = 0
    THEN [recommended_style |-> "modern",
          recommended_focus_areas |-> <<"grammar", "clarity", "flow">>,
          confidence_score |-> 0,
          success_rate |-> SuccessRate(0, 1),
          total_feedback |-> st.total_feedback,
          learning_insights |-> <<>>]
    ELSE [recommended_style |-> BestStyle(st).style,
          recommended_focus_areas |-> BestFocusAreas(st),
          confidence_score |-> BestStyle(st).confidence,
          success_rate |-> SuccessRate(st.good_feedback_count, st.total_feedback),
          total_feedback |-> st.total_feedback,
          learning_insights |-> Insights(st)]

\* recent_improvements: the last 10 feedback items, when there are 5 or more
RecentImprovements(st) ==
    LET recent_feedback == LastN(st.feedback_history, 10)
        recent_good     == Cardinality(GoodIn(recent_feedback))
    IN  IF Len(recent_feedback) >= 5
        THEN <<Line("Recent success rate: {r:.1f}%",
                    FormatTenths(100 * recent_good, Len(recent_feedback))),
               Line("Learning from {n} recent interactions", Len(recent_feedback))>>
        ELSE <<>>

GetLearningStats(st) ==
    [total_feedback |-> st.total_feedback,
     good_feedback |-> st.good_feedback_count,
     success_rate |-> IF st.total_feedback > 0
                      THEN SuccessRate(st.good_feedback_count, st.total_feedback)
                      ELSE SuccessRate(0, 1),
     learning_patterns |-> Len(st.successful_patterns),
     style_distribution |-> PlainDict(st.style_preferences.items),
     focus_effectiveness |-> PlainDict(st.focus_area_effectiveness.items),
     recent_improvements |-> RecentImprovements(st)]

\* AfterRead had the readers look a weight up by d[key]: reading a missing key
\* of a defaultdict(float) inserts it
AfterReadByIndex(st) ==
    [st EXCEPT !.style_preferences.items = AddTo(@, "modern", 0)]

\* The state a read leaves.  The three readers go through .items(), max(),
\* sorted(), dict() and the truth value of each mapping, and none of these
\* inserts a key into a defaultdict.
AfterRead(st) == st

(* ------------------------------------------------------------------ *)
(* The generation pipeline (src/ai_agents.py)                          *)
(* ------------------------------------------------------------------ *)

\* len(s) of a text: its characters
RECURSIVE CharLen(_)
CharLen(s) ==
    IF s = <<>> THEN 0
    ELSE (CASE Head(s) = ParaBreak -> 2
            [] Head(s) = Quote -> 1
            [] OTHER -> Len(Head(s))) + CharLen(Tail(s))

\* s.startswith("Error:")
StartsWithError(s) == Len(s) >= 2 /\ s[1] = "Error" /\ s[2] = ":"

\* "Error: ..." messages; the rest of the message is one token
ErrorMessage(rest) == <<"Error", ":", " ", rest>>

\* f"Error in AI Writer: {error_msg}" and f"Error in AI Reviewer: {error_msg}"
ErrorIn(who, error_msg) == <<"Error", " ", "in", " ", who, ":", " ">> \o error_msg

\* not content or len(content.strip()) < 10
TooShort(content) == content = <<>> \/ CharLen(Strip(content)) < 10

\* "quota" in error_msg.lower() or "limit" in error_msg.lower()
IsQuota(error_msg) == \E i \in 1..Len(error_msg) : Lower(error_msg[i]) \in {"quota", "limit"}

\* "API_KEY_INVALID" in error_msg
IsInvalidKey(error_msg) == \E i \in 1..Len(error_msg) : error_msg[i] = "API_KEY_INVALID"

\* os.getenv("GEMINI_API_KEY"): unset, or a string seen as its prefix and length
KeyUnset == [set |-> FALSE, prefix |-> "", len |-> 0]
ApiKey(prefix, len) == [set |-> TRUE, prefix |-> prefix, len |-> len]

\* not api_key or api_key.strip() == ""
KeyMissing(api_key) == ~api_key.set \/ api_key.len = 0

\* api_key.startswith("AIza") and len(api_key) >= 35
KeyWellFormed(api_key) == api_key.prefix = "AIza" /\ api_key.len >= 35

\* st.session_state without the three cache entries, or with all three None
NoCache == [validated |-> "None", last_checked |-> None, cached_key |-> KeyUnset]

\* time.time() counts in steps of 300 seconds; the cache lasts 300 seconds
SecondsPerTick == 300

\* CacheFresh with a result of exactly 300 seconds taken as recent
CacheFreshInclusive(session, now) ==
    /\ session.validated # "None"
    /\ session.last_checked.some
    /\ (now - session.last_checked.val) * SecondsPerTick <= 300

CacheFresh(session, now) ==
    /\ session.validated # "None"
    /\ session.last_checked.some
    /\ (now - session.last_checked.val) * SecondsPerTick < 300

\* what model.generate_content can do: return a response with text, return
\* one without, or raise
Returned(text) == [kind |-> "text", text |-> text]
NoText == [kind |-> "empty", text |-> <<>>]
Raised(error_msg) == [kind |-> "raises", text |-> error_msg]

MsgQuota == <<"429", " ", "quota", " ", "exceeded">>
MsgInvalidKey == <<"400", " ", "API_KEY_INVALID">>
MsgNetwork == <<"network", " ", "timeout">>
MsgOther == <<"Connection", " ", "reset", " ", "by", " ", "peer">>

TextRewritten == <<"A", " ", "vivid", " ", "garden", " ", "in", " ", "bloom", ".">>

GenerationOutcomes ==
    {Returned(<<" ">> \o TextRewritten \o <<" ">>), NoText,
     Raised(MsgQuota), Raised(MsgInvalidKey), Raised(MsgOther)}

\* The outcomes of the test request of validate_api_key, one for each branch
\* of the function.
TestOutcomes ==
    {Returned(<<"Hello">>), NoText, Raised(MsgInvalidKey), Raised(MsgQuota),
     Raised(MsgNetwork), Raised(MsgOther)}

\* The outcomes of the test request in the runs of the two agents.  A quota
\* error and a network error take branches of their own in validate_api_key,
\* with the effect of any other error that does not name the key.
ValidationOutcomes ==
    {Returned(<<"Hello">>), NoText, Raised(MsgInvalidKey), Raised(MsgOther)}

\* one request to the generation service
Request(who, prompt, outcome) == [who |-> who, prompt |-> prompt, outcome |-> outcome]

\* validate_api_key: the runs it can take, each [ok, session, calls], when
\* the test request ends in one of outcomes
ValidateApiKeyOn(api_key, session0, now, outcomes) ==
    LET session == IF session0.cached_key # api_key
                   THEN [session0 EXCEPT !.validated = "None", !.cached_key = api_key]
                   ELSE session0
        cached(valid) == [session EXCEPT !.validated = IF valid THEN "True" ELSE "False",
                                         !.last_checked = Some(now)]
        run(ok, sess, outcome) ==
            [ok |-> ok, session |-> sess, calls |-> <<Request("validate", "Hi", outcome)>>]
    IN  IF KeyMissing(api_key) \/ ~KeyWellFormed(api_key)
        THEN {[ok |-> FALSE, session |-> session0, calls |-> <<>>]}
        ELSE IF CacheFresh(session, now)
        THEN {[ok |-> session.validated = "True", session |-> session, calls |-> <<>>]}
        ELSE {CASE o.kind = "text" -> run(TRUE, cached(TRUE), o)
                [] o.kind = "empty" -> run(FALSE, cached(FALSE), o)
                [] o.kind = "raises" /\ IsInvalidKey(o.text) -> run(FALSE, cached(FALSE), o)
                [] OTHER -> run(TRUE, session, o)
              : o \in outcomes}

ValidateApiKey(api_key, session0, now) ==
    ValidateApiKeyOn(api_key, session0, now, ValidationOutcomes)

\* get_adaptive_writer_prompt and get_adaptive_reviewer_prompt: the prompt as
\* the parts the template is filled with
\* (adaptive: the section ADAPTIVE LEARNING INSTRUCTIONS is in the prompt)
WriterPrompt(content, style_preference, rl_instructions) ==
    [role |-> "writer", content |-> content, setting |-> style_preference,
     adaptive |-> rl_instructions # <<>>, rl_instructions |-> rl_instructions]

ReviewerPrompt(content, focus_areas, rl_instructions) ==
    [role |-> "reviewer", content |-> content, setting |-> focus_areas,
     adaptive |-> rl_instructions # <<>>, rl_instructions |-> rl_instructions]

KeyErrorText == "Invalid or missing Gemini API key. Please check your configuration."

\* what ai_writer and ai_reviewer return for an outcome of their request
AgentReturn(who, outcome, no_text) ==
    CASE outcome.kind = "text" -> Strip(outcome.text)
      [] outcome.kind = "empty" -> ErrorMessage(no_text)
      [] IsQuota(outcome.text) ->
            ErrorMessage("API quota exceeded. Please try again later or check your API limits.")
      [] IsInvalidKey(outcome.text) ->
            ErrorMessage("Invalid API key. Please check your GEMINI_API_KEY configuration.")
      [] OTHER -> ErrorIn(who, outcome.text)

\* the part ai_writer and ai_reviewer share: the content check, the key
\* check, the prompt with the adaptive instructions, the request.
\* Each run is [ret, session, calls, read].
AgentRuns(who, agent_type, content, setting, too_short, no_text, api_key, session, now, st) ==
    LET prompt(rl_instructions) ==
            IF agent_type = "writer" THEN WriterPrompt(content, setting, rl_instructions)
            ELSE ReviewerPrompt(content, setting, rl_instructions)
    IN
    IF TooShort(content)
    THEN {[ret |-> ErrorMessage(too_short), session |-> session, calls |-> <<>>,
           read |-> FALSE]}
    ELSE UNION {
            IF ~v.ok
            THEN {[ret |-> ErrorMessage(KeyErrorText), session |-> v.session,
                   calls |-> v.calls, read |-> FALSE]}
            ELSE {[ret |-> AgentReturn(who, o, no_text), session |-> v.session,
                   calls |-> Append(v.calls,
                                    Request(agent_type,
                                            prompt(GetAdaptivePromptInstructions(st, agent_type)),
                                            o)),
                   read |-> TRUE]
                  : o \in GenerationOutcomes}
            : v \in ValidateApiKey(api_key, session, now)}

\* ai_writer(content, style_preference)
AiWriter(content, style_preference, api_key, session, now, st) ==
    AgentRuns("AI Writer", "writer", content, style_preference,
              "Content too short or empty for AI processing.",
              "AI Writer could not generate content.", api_key, session, now, st)

\* ai_reviewer(content, focus_areas)
AiReviewer(content, focus_areas_arg, api_key, session, now, st) ==
    LET focus_areas == IF focus_areas_arg.some THEN focus_areas_arg.val
                       ELSE <<"grammar", "clarity", "flow", "consistency">>
    IN  AgentRuns("AI Reviewer", "reviewer", content, focus_areas,
                  "Content too short or empty for AI review.",
                  "AI Reviewer could not process content.", api_key, session, now, st)

\* results of batch_process with status "error" and the key "error"
Failed(results, error) ==
    [k \in DOMAIN results \cup {"error"} |->
        CASE k = "error" -> error
          [] k = "status" -> "error"
          [] OTHER -> results[k]]

\* batch_process(original_content, style_preference, focus_areas): the runs it
\* can take, each [ret, session, calls, read]
BatchProcess(original_content, style_preference, focus_areas, api_key, session, now, st) ==
    LET results ==
            [original |-> original_content, writer_output |-> <<>>,
             reviewer_output |-> <<>>, processing_time |-> 0, status |-> "processing",
             rl_suggestions |-> <<>>, adaptive_instructions_used |-> FALSE]
        started ==
            [results EXCEPT !.rl_suggestions = GetSmartSuggestions(st),
                            !.adaptive_instructions_used = st.total_feedback >= 3]
        reviewed(w, written) ==
            {LET done == [written EXCEPT !.reviewer_output = r.ret]
             IN  [ret |-> IF StartsWithError(r.ret) THEN Failed(done, r.ret)
                          ELSE [done EXCEPT !.processing_time = 1, !.status = "completed"],
                  session |-> r.session, calls |-> w.calls \o r.calls, read |-> TRUE]
             : r \in AiReviewer(written.writer_output, focus_areas, api_key, w.session, now, st)}
        wrote(v) ==
            UNION {LET written == [started EXCEPT !.writer_output = w.ret]
                       sofar   == [w EXCEPT !.calls = v.calls \o w.calls]
                   IN  IF StartsWithError(w.ret)
                       THEN {[ret |-> Failed(written, w.ret), session |-> w.session,
                              calls |-> sofar.calls, read |-> TRUE]}
                       ELSE reviewed(sofar, written)
                   : w \in AiWriter(original_content, style_preference, api_key,
                                    v.session, now, st)}
    IN  UNION {IF ~v.ok
               THEN {[ret |-> Failed(results, <<KeyErrorText>>), session |-> v.session,
                      calls |-> v.calls, read |-> FALSE]}
               ELSE wrote(v)
               : v \in ValidateApiKey(api_key, session, now)}

(* ------------------------------------------------------------------ *)
(* Inputs and bounds                                                   *)
(* ------------------------------------------------------------------ *)

\* update calls in one run of Spec
MaxCalls == 2

\* writes that fail in one run of Spec
MaxFaults == 1

\* update calls in one run of SpecLong
MaxLongCalls == 103

\* SpecLong resets the agent only after at most this many update calls
LongResetBy == 1

\* the ratings of a run of SpecLong repeat with this period
PlanPeriod == 2

\* the two values of the rating radio button
Ratings == {"Good", "Bad"}

AgentTypes == {"writer", "reviewer"}

\* A single sentence with one adjective, no quote and no transition word.
TextPlain == <<"the", " ", "vivid", " ", "garden", ".">>

\* Two sentences of one and three words, a quoted span, a transition word and a
\* word of eight letters or more.
TextDialogue ==
    <<Quote, "However", Quote, "!", " ", "the", " ", "extraordinary", " ", "day", ".">>

\* The arguments of an update call.  Their feature values are multiples of 4
\* in 1/Unit, so that the fixed-point arithmetic of update is exact on them.
Inputs ==
    [plain |->
        [output |-> TextPlain, style |-> "classic",
         focus_areas |-> Some(<<"grammar">>),
         metadata |-> Some(<<Item("source_url", "u1")>>)],
     empty |->
        [output |-> <<>>, style |-> "modern",
         focus_areas |-> None, metadata |-> None],
     dialogue |->
        [output |-> TextDialogue, style |-> "modern",
         focus_areas |-> Some(<<"engagement", "grammar">>),
         metadata |-> Some(<<>>)]]

InputNames == DOMAIN Inputs

\* The snapshot of an older version of the program, which kept fewer fields.
OldSnapshot == [feedback_history |-> <<>>, total_feedback |-> 0]

\* what the file can hold when the process starts
InitialDisks == {NoFile, JsonFile(OldSnapshot)}

(* ------------------------------------------------------------------ *)
(* The state machine                                                   *)
(* ------------------------------------------------------------------ *)

VARIABLES
    state,      \* rl_agent.state
    disk,       \* the file enhanced_rl_state.json
    clock,      \* datetime.now()
    last,       \* the last operation, its arguments and its result
    calls,      \* update calls made in this run
    faults,     \* writes that failed in this run
    log,        \* while fromEmpty: the feedback records made since the last reset
    goodLog,    \* while fromEmpty: the successful_patterns entries made since then
    fromEmpty,  \* the state was empty at the last reset or construction, and only
                \* update has changed it since
    lastWrite,  \* how the write of the last update or reset_learning ended
    memAtFail,  \* the in-memory state an update left when its write failed
    resetRun,   \* the reset_learning calls just made in a row (2 stands for more)
    plan,       \* SpecLong: the ratings of the run, repeated
    pipe,       \* the generation pipeline: the API key, the session's validation
                \* cache, time.time(), and the last call with its requests
    probe,      \* a text and what extract_text_patterns returned for it
    race,       \* the update calls of two sessions: where each thread stands in
                \* update, its arguments and what it has read
    voice,      \* speech playback: the globals of voice_support, the engine,
                \* the call the script thread is in, and the worker threads
    sess        \* st.session_state of the front end, with the files and the
                \* stored chapters the session has written

vars == <<state, disk, clock, last, calls, faults, log, goodLog, fromEmpty,
          lastWrite, memAtFail, resetRun, plan, pipe, probe, race, voice, sess>>

\* the parts of the program the agent's and the pipeline's operations leave alone
others == <<probe, race, voice, sess>>

\* the script threads of two front-end sessions
Threads == {"A", "B"}

\* no session is in update
RaceIdle ==
    [pc |-> [t \in Threads |-> "idle"],
     rating |-> [t \in Threads |-> ""],
     input |-> [t \in Threads |-> ""],
     read |-> [t \in Threads |-> 0],
     save_state |-> [t \in Threads |-> DefaultState]]

\* no text has been handed to extract_text_patterns on its own
ProbeIdle == [text |-> <<>>, calls |-> 0, ret |-> <<>>, first |-> <<>>]

\* speak_text calls in a run
MaxSpeaks == 2

\* stop_speaking calls the front end makes in a run
MaxStops == 2

\* sentences in a text handed to speak_text
MaxSentences == 2

Workers == 1..MaxSpeaks

\* the four globals of the module
Globals(v) ==
    [is_speaking |-> v.is_speaking, speak_thread |-> v.speak_thread,
     stop_requested |-> v.stop_requested, current_engine |-> v.current_engine]

CallIdle == [op |-> "none", pc |-> "", nested |-> FALSE, n |-> 0]

\* the module after import: nothing is playing
VoiceIdle ==
    [is_speaking |-> FALSE, speak_thread |-> 0, stop_requested |-> FALSE,
     current_engine |-> "None",
     queue |-> <<>>, batch |-> <<>>, loop |-> 0, uttering |-> 0,
     worker |-> [w \in Workers |->
                    [pc |-> "new", n |-> 0, i |-> 0, spoken |-> 0, error |-> "",
                     clean |-> 0]],
     call |-> CallIdle, error |-> "", speaks |-> 0, stops |-> 0,
     \* what the properties look back at
     stopped |-> FALSE, idle_stop |-> FALSE, idle_stops |-> 0,
     before |-> [is_speaking |-> FALSE, speak_thread |-> 0, stop_requested |-> FALSE,
                 current_engine |-> "None"]]

\* a URL as urlparse sees it
Url(scheme, netloc, path) == [scheme |-> scheme, netloc |-> netloc, path |-> path]

\* the empty string in the URL field
NoUrl == Url("", "", "")

\* a text of the session; of is the URL of the item it was made from
SessionText(text, of) == [text |-> text, of |-> of]

EmptyText == SessionText(<<>>, NoUrl)

\* init_session_state: the defaults of a new session
SessIdle ==
    [scraping_status |-> "", original_text |-> EmptyText, writer_output |-> EmptyText,
     reviewer_output |-> EmptyText, url_processed |-> NoUrl, files |-> <<>>,
     \* what the properties look back at
     origin |-> "", stages |-> <<>>, failed |-> FALSE, submits |-> 0]

RestIdle ==
    /\ probe = ProbeIdle
    /\ race = RaceIdle
    /\ voice = VoiceIdle
    /\ sess = SessIdle

\* the pipeline before its first call, with this GEMINI_API_KEY
PipeIdle(api_key) ==
    [api_key |-> api_key, session |-> NoCache, now |-> 0, op |-> "", content |-> <<>>,
     ret |-> <<>>, calls |-> <<>>]

\* a key of the expected form
GoodKey == ApiKey("AIza", 39)

\* what load_state found: the ret of a load_state or __init__
Found(dsk) == IF dsk.kind = "none" THEN <<"FileNotFoundError">> ELSE <<>>

Did(op, outcome, rating, input, agent, ret) ==
    [op |-> op, outcome |-> outcome, rating |-> rating, input |-> input,
     agent |-> agent, ret |-> ret]

\* rl_agent = EnhancedRLAgent(): the defaults, then load_state.  The process
\* only comes up when the constructor returns.
Construct(dsk) == LoadState(DefaultState, dsk, "ok")

Init ==
    \E d0 \in InitialDisks :
        /\ state = Construct(d0).state
        /\ disk = Construct(d0).disk
        /\ clock = 0
        /\ last = Did("__init__", "ok", "", "", "", Found(d0))
        /\ calls = 0
        /\ faults = 0
        /\ log = <<>>
        /\ goodLog = <<>>
        /\ fromEmpty = (Construct(d0).state = DefaultState)
        /\ lastWrite = "none"
        /\ memAtFail = DefaultState
        /\ resetRun = 0
        /\ plan = <<>>
        /\ pipe = PipeIdle(GoodKey)
        /\ RestIdle

\* rl_agent.update(rating, output, style_preference, focus_areas, metadata)
UpdateCall(rating, name, w) ==
    LET inp == Inputs[name]
        st2 == UpdateState(state, clock, rating, inp.output, inp.style,
                           inp.focus_areas, inp.metadata)
        sv  == SaveState(st2, disk, w)
        \* the record and the entry this call makes, for the two logs
        pats  == ExtractTextPatterns(inp.output)
        rec   == FeedbackRecord(clock, rating, inp.output, inp.style,
                                FocusAreas(inp.focus_areas), pats, inp.metadata)
        entry == SuccessEntry(clock, pats, inp.style, FocusAreas(inp.focus_areas))
    IN  /\ state' = st2
        /\ disk' = sv.disk
        /\ clock' = ClockAfterUpdate(clock)
        /\ last' = Did("update", sv.outcome, rating, name, "", <<>>)
        /\ calls' = calls + 1
        /\ faults' = IF w = "ok" THEN faults ELSE faults + 1
        /\ log' = IF fromEmpty THEN Append(log, rec) ELSE <<>>
        /\ goodLog' = IF fromEmpty /\ rating = "Good" THEN Append(goodLog, entry)
                      ELSE IF fromEmpty THEN goodLog ELSE <<>>
        /\ fromEmpty' = fromEmpty
        /\ lastWrite' = IF sv.outcome = "ok" THEN "ok" ELSE "update_failed"
        /\ memAtFail' = IF sv.outcome = "ok" THEN DefaultState ELSE st2
        /\ resetRun' = 0
        /\ plan' = plan
        /\ UNCHANGED <<pipe, others>>

\* rl_agent.reset_learning()
ResetCall(w) ==
    LET sv == SaveState(ResetState(state), disk, w)
    IN  /\ state' = ResetState(state)
        /\ disk' = sv.disk
        /\ last' = Did("reset_learning", sv.outcome, "", "", "", <<>>)
        /\ faults' = IF w = "ok" THEN faults ELSE faults + 1
        /\ log' = <<>>
        /\ goodLog' = <<>>
        /\ fromEmpty' = TRUE
        /\ lastWrite' = IF sv.outcome = "ok" THEN "ok" ELSE "reset_failed"
        /\ memAtFail' = DefaultState
        /\ resetRun' = IF resetRun = 0 THEN 1 ELSE 2
        /\ UNCHANGED <<clock, calls, plan, pipe, others>>

\* Submit Feedback
Update ==
    \E rating \in Ratings, name \in InputNames, w \in WriteOutcomes :
        /\ calls < MaxCalls
        /\ w # "ok" => faults < MaxFaults
        /\ UpdateCall(rating, name, w)

\* Reset Learning Data
ResetLearning ==
    \E w \in WriteOutcomes :
        /\ w # "ok" => faults < MaxFaults
        /\ ResetCall(w)

\* rl_agent.load_state() at the top of every script run
Reload ==
    LET r == LoadState(state, disk, "ok")
    IN  /\ state' = r.state
        /\ disk' = r.disk
        /\ last' = Did("load_state", r.outcome, "", "", "", Found(disk))
        /\ fromEmpty' = (fromEmpty /\ r.state = state)
        /\ log' = IF fromEmpty' THEN log ELSE <<>>
        /\ goodLog' = IF fromEmpty' THEN goodLog ELSE <<>>
        /\ resetRun' = 0
        /\ UNCHANGED <<clock, calls, faults, lastWrite, memAtFail, plan, pipe, others>>

\* The process ends and a new one constructs the agent from the file.
Restart ==
    /\ disk.kind = "json"
    /\ state' = Construct(disk).state
    /\ disk' = Construct(disk).disk
    /\ last' = Did("__init__", "ok", "", "", "", Found(disk))
    /\ log' = <<>>
    /\ goodLog' = <<>>
    /\ fromEmpty' = (Construct(disk).state = DefaultState)
    /\ lastWrite' = "none"
    /\ memAtFail' = DefaultState
    /\ resetRun' = 0
    /\ UNCHANGED <<clock, calls, faults, plan, pipe, others>>

\* rl_agent.get_adaptive_prompt_instructions(agent_type)
ReadInstructions ==
    \E agent \in AgentTypes :
        /\ last' = Did("get_adaptive_prompt_instructions", "ok", "", "", agent,
                       GetAdaptivePromptInstructions(state, agent))
        /\ state' = AfterRead(state)
        /\ resetRun' = 0
        /\ UNCHANGED <<disk, clock, calls, faults, log, goodLog, fromEmpty,
                       lastWrite, memAtFail, plan, pipe, others>>

\* rl_agent.get_smart_suggestions()
ReadSuggestions ==
    /\ last' = Did("get_smart_suggestions", "ok", "", "", "", GetSmartSuggestions(state))
    /\ state' = AfterRead(state)
    /\ resetRun' = 0
    /\ UNCHANGED <<disk, clock, calls, faults, log, goodLog, fromEmpty,
                   lastWrite, memAtFail, plan, pipe, others>>

\* rl_agent.get_learning_stats()
ReadStats ==
    /\ last' = Did("get_learning_stats", "ok", "", "", "", GetLearningStats(state))
    /\ state' = AfterRead(state)
    /\ resetRun' = 0
    /\ UNCHANGED <<disk, clock, calls, faults, log, goodLog, fromEmpty,
                   lastWrite, memAtFail, plan, pipe, others>>

Next ==
    \/ Update
    \/ ResetLearning
    \/ Reload
    \/ Restart
    \/ ReadInstructions
    \/ ReadSuggestions
    \/ ReadStats

Spec == Init /\ [][Next]_vars

(* ------------------------------------------------------------------ *)
(* Long runs: the two logs reach their caps                            *)
(* ------------------------------------------------------------------ *)

Plans == [1..PlanPeriod -> Ratings]

\* the rating and the arguments of the i-th update call of a long run
PlannedRating(i) == plan[((i - 1) % PlanPeriod) + 1]

PlannedInput(i) ==
    CASE i % 3 = 0 -> "plain"
      [] i % 3 = 1 -> "dialogue"
      [] OTHER     -> "empty"

InitLong ==
    /\ state = Construct(NoFile).state
    /\ disk = Construct(NoFile).disk
    /\ clock = 0
    /\ last = Did("__init__", "ok", "", "", "", Found(NoFile))
    /\ calls = 0
    /\ faults = 0
    /\ log = <<>>
    /\ goodLog = <<>>
    /\ fromEmpty = TRUE
    /\ lastWrite = "none"
    /\ memAtFail = DefaultState
    /\ resetRun = 0
    /\ plan \in Plans
    /\ pipe = PipeIdle(GoodKey)
    /\ RestIdle

UpdateLong ==
    /\ calls < MaxLongCalls
    /\ UpdateCall(PlannedRating(calls + 1), PlannedInput(calls + 1), "ok")

ResetLong ==
    /\ calls <= LongResetBy
    /\ ResetCall("ok")

NextLong ==
    \/ UpdateLong
    \/ ResetLong
    \/ ReadInstructions
    \/ ReadSuggestions
    \/ ReadStats

SpecLong == InitLong /\ [][NextLong]_vars

(* ------------------------------------------------------------------ *)
(* The readers on the state an earlier run has left in the file        *)
(* ------------------------------------------------------------------ *)

\* Good updates of each kind in the earlier run
MaxGoodEach == 6

\* Bad updates of each kind in the earlier run
MaxBadEach == 4

\* The arguments of the updates of the earlier run: four focus areas with
\* one of the writer's among them, and the two areas of the writer.
AdviceInputs ==
    [survey |->
        [output |-> TextPlain, style |-> "modern",
         focus_areas |-> Some(<<"grammar", "clarity", "flow", "engagement">>),
         metadata |-> None],
     story |->
        [output |-> TextDialogue, style |-> "classic",
         focus_areas |-> Some(<<"engagement", "style">>),
         metadata |-> None]]

AdviceNames == DOMAIN AdviceInputs

RECURSIVE Repeated(_, _, _, _)
\* n update calls of one rating and one set of arguments, each successful;
\* the clock has ticked twice for every update made before
Repeated(st, rating, inp, n) ==
    IF n = 0 THEN st
    ELSE Repeated(UpdateState(st, 2 * st.total_feedback, rating, inp.output,
                              inp.style, inp.focus_areas, inp.metadata),
                  rating, inp, n - 1)

\* the state after, for each kind in order, count[kind].good Good updates and
\* then count[kind].bad Bad updates, from the empty state
EarlierRun(count, order) ==
    LET one(st, name) ==
            Repeated(Repeated(st, "Good", AdviceInputs[name], count[name].good),
                     "Bad", AdviceInputs[name], count[name].bad)
    IN  one(one(DefaultState, order[1]), order[2])

\* the runs whose last write left the snapshot the process starts from
EarlierRuns ==
    {EarlierRun(count, order) :
        count \in [AdviceNames -> [good : 0..MaxGoodEach, bad : 0..MaxBadEach]],
        order \in {<<"survey", "story">>, <<"story", "survey">>}}

InitAdvice ==
    \E run \in EarlierRuns :
        LET made == Construct(SaveState(run, NoFile, "ok").disk)
        IN  /\ state = made.state
            /\ disk = made.disk
            /\ clock = 2 * run.total_feedback
            /\ last = Did("__init__", "ok", "", "", "", Found(made.disk))
            /\ calls = 0
            /\ faults = 0
            /\ log = <<>>
            /\ goodLog = <<>>
            /\ fromEmpty = (made.state = DefaultState)
            /\ lastWrite = "none"
            /\ memAtFail = DefaultState
            /\ resetRun = 0
            /\ plan = <<>>
            /\ pipe = PipeIdle(GoodKey)
        /\ RestIdle

NextAdvice ==
    \/ ReadInstructions
    \/ ReadSuggestions
    \/ ReadStats

SpecAdvice == InitAdvice /\ [][NextAdvice]_vars

(* ------------------------------------------------------------------ *)
(* The pipeline's calls                                                *)
(* ------------------------------------------------------------------ *)

\* time.time() advances by at most this many ticks in a run
MaxTicks == 1

\* GEMINI_API_KEY: unset, empty, of another service, too short, well-formed
ApiKeys == {KeyUnset, ApiKey("", 0), ApiKey("sk-", 40), ApiKey("AIza", 20), GoodKey}

\* Contents: none, 9 characters between blanks, 10 characters, a sentence
Contents ==
    {<<>>, <<" ", "abcd", " ", "fghi", " ">>, <<"abcde", " ", "fghi">>, TextPlain}

FocusChoices == {None, Some(<<"grammar", "style">>)}

\* the focus areas picked along with a content in the Process form
FocusFor(content) == IF content = TextPlain THEN Some(<<"grammar", "style">>) ELSE None

\* the agent before the run: new, or after three Good updates
BatchRuns ==
    {EarlierRun([n \in AdviceNames |-> [good |-> g, bad |-> 0]], <<"survey", "story">>)
        : g \in {0, 3}}

InitBatch ==
    \E run \in BatchRuns, api_key \in ApiKeys :
        LET made == Construct(SaveState(run, NoFile, "ok").disk)
        IN  /\ state = made.state
            /\ disk = made.disk
            /\ clock = 2 * run.total_feedback
            /\ last = Did("__init__", "ok", "", "", "", Found(made.disk))
            /\ calls = 0
            /\ faults = 0
            /\ log = <<>>
            /\ goodLog = <<>>
            /\ fromEmpty = (made.state = DefaultState)
            /\ lastWrite = "none"
            /\ memAtFail = DefaultState
            /\ resetRun = 0
            /\ plan = <<>>
            /\ pipe = PipeIdle(api_key)
        /\ RestIdle

\* a call of the pipeline has taken the run r
Called(op, content, r) ==
    /\ pipe' = [pipe EXCEPT !.session = r.session, !.op = op, !.content = content,
                            !.ret = r.ret, !.calls = r.calls]
    /\ state' = IF r.read THEN AfterRead(state) ELSE state
    /\ resetRun' = IF r.read THEN 0 ELSE resetRun
    /\ UNCHANGED <<disk, clock, last, calls, faults, log, goodLog, fromEmpty,
                   lastWrite, memAtFail, plan, others>>

\* batch_process(content, style, focus_areas), from the two Process buttons
CallBatchProcess ==
    \E content \in Contents :
        \E r \in BatchProcess(content, "modern", FocusFor(content), pipe.api_key,
                              pipe.session, pipe.now, state) :
            Called("batch_process", content, r)

\* ai_writer(content, style)
CallAiWriter ==
    \E content \in Contents :
        \E r \in AiWriter(content, "classic", pipe.api_key, pipe.session, pipe.now, state) :
            Called("ai_writer", content, r)

\* ai_reviewer(content, focus_areas)
CallAiReviewer ==
    \E content \in Contents, focus \in FocusChoices :
        \E r \in AiReviewer(content, focus, pipe.api_key, pipe.session, pipe.now, state) :
            Called("ai_reviewer", content, r)

\* validate_api_key() of the sidebar, at every script run
CheckApiKey ==
    \E v \in ValidateApiKey(pipe.api_key, pipe.session, pipe.now) :
        Called("validate_api_key", <<>>, [ret |-> <<v.ok>>, session |-> v.session,
                                          calls |-> v.calls, read |-> FALSE])

\* clear_api_validation_cache()
ClearCache ==
    /\ pipe' = [pipe EXCEPT !.session = NoCache, !.op = "clear_api_validation_cache",
                            !.content = <<>>, !.ret = <<>>, !.calls = <<>>]
    /\ UNCHANGED <<state, disk, clock, last, calls, faults, log, goodLog, fromEmpty,
                   lastWrite, memAtFail, resetRun, plan, others>>

\* 300 seconds pass
TimePasses ==
    /\ pipe.now < MaxTicks
    /\ pipe' = [pipe EXCEPT !.now = @ + 1]
    /\ UNCHANGED <<state, disk, clock, last, calls, faults, log, goodLog, fromEmpty,
                   lastWrite, memAtFail, resetRun, plan, others>>

NextBatch ==
    \/ CallBatchProcess
    \/ CallAiWriter
    \/ CallAiReviewer
    \/ CheckApiKey
    \/ ClearCache
    \/ TimePasses

SpecBatch == InitBatch /\ [][NextBatch]_vars

(* ------------------------------------------------------------------ *)
(* extract_text_patterns on its own                                    *)
(* ------------------------------------------------------------------ *)

\* tokens in a text handed to extract_text_patterns
MaxTextLen == 3

\* calls of extract_text_patterns on one text
MaxProbeCalls == 2

\* a word, a transition word, the quote, two terminators, the two blanks
ProbeTokens == {"day", "However", Quote, ".", "?", Space, ParaBreak}

ProbeTexts == UNION {[1..n -> ProbeTokens] : n \in 0..MaxTextLen}

\* the variables of the agent
rlVars == <<state, disk, clock, last, calls, faults, log, goodLog, fromEmpty,
            lastWrite, memAtFail, resetRun, plan>>

\* the variables of the agent and of the pipeline
agentVars == <<rlVars, pipe>>

\* a new agent without a file
AgentNew ==
    /\ state = Construct(NoFile).state
    /\ disk = Construct(NoFile).disk
    /\ clock = 0
    /\ last = Did("__init__", "ok", "", "", "", Found(NoFile))
    /\ calls = 0
    /\ faults = 0
    /\ log = <<>>
    /\ goodLog = <<>>
    /\ fromEmpty = TRUE
    /\ lastWrite = "none"
    /\ memAtFail = DefaultState
    /\ resetRun = 0
    /\ plan = <<>>

InitExtract ==
    /\ AgentNew
    /\ pipe = PipeIdle(GoodKey)
    /\ \E text \in ProbeTexts : probe = [ProbeIdle EXCEPT !.text = text]
    /\ race = RaceIdle
    /\ voice = VoiceIdle
    /\ sess = SessIdle

\* rl_agent.extract_text_patterns(text); self is not read
CallExtract ==
    /\ probe.calls < MaxProbeCalls
    /\ probe' = [probe EXCEPT
                    !.calls = @ + 1,
                    !.ret = ExtractTextPatterns(probe.text),
                    !.first = IF probe.calls = 0 THEN ExtractTextPatterns(probe.text)
                              ELSE @]
    /\ UNCHANGED <<agentVars, race, voice, sess>>

NextExtract == CallExtract

SpecExtract == InitExtract /\ [][NextExtract]_vars

(* ------------------------------------------------------------------ *)
(* validate_api_key while the key and the time change                  *)
(* ------------------------------------------------------------------ *)

\* time.time() advances by at most this many ticks in a run of SpecKey
MaxWait == 2

\* a second key of the expected form
OtherKey == ApiKey("AIza", 40)

\* what GEMINI_API_KEY can be set to
EnvKeys == ApiKeys \cup {OtherKey}

InitKey ==
    /\ AgentNew
    /\ \E api_key \in EnvKeys : pipe = PipeIdle(api_key)
    /\ RestIdle

\* validate_api_key(), with every branch of its error handling
CheckKey ==
    \E v \in ValidateApiKeyOn(pipe.api_key, pipe.session, pipe.now, TestOutcomes) :
        Called("validate_api_key", <<>>, [ret |-> <<v.ok>>, session |-> v.session,
                                          calls |-> v.calls, read |-> FALSE])

\* the environment variable GEMINI_API_KEY is set to another value, or unset
SetApiKey ==
    /\ \E api_key \in EnvKeys \ {pipe.api_key} :
          pipe' = [pipe EXCEPT !.api_key = api_key, !.op = "setenv", !.content = <<>>,
                               !.ret = <<>>, !.calls = <<>>]
    /\ UNCHANGED <<rlVars, others>>

\* 300 seconds pass
Wait ==
    /\ pipe.now < MaxWait
    /\ pipe' = [pipe EXCEPT !.now = @ + 1, !.op = "sleep", !.content = <<>>,
                            !.ret = <<>>, !.calls = <<>>]
    /\ UNCHANGED <<rlVars, others>>

NextKey ==
    \/ CheckKey
    \/ ClearCache
    \/ SetApiKey
    \/ Wait

SpecKey == InitKey /\ [][NextKey]_vars

(* ------------------------------------------------------------------ *)
(* update called by two sessions at once                               *)
(* ------------------------------------------------------------------ *)

\* The front end runs the script of each session on a thread of its own, and
\* the threads share rl_agent.  update takes no lock, so a thread can be
\* switched out between any two of its bytecodes.  The steps below are the
\* statements of update, with the two read-modify-write statements
\* total_feedback += 1 and style_preferences[style] += ... in two steps
\* each, and save_state in two steps, the loop that builds the object to
\* write and the writing of the file, between which the thread waits for the
\* file system.  The other statements are taken as one step each, which
\* leaves out interleavings and adds none.

InitRace ==
    /\ AgentNew
    /\ pipe = PipeIdle(GoodKey)
    /\ RestIdle

\* what the variables of a step of update leave alone
raceRest == <<last, calls, faults, log, goodLog, fromEmpty, lastWrite, memAtFail,
              resetRun, plan, pipe, probe, voice, sess>>

At(t, pc) == race.pc[t] = pc

Goto(t, pc) == [race EXCEPT !.pc[t] = pc]

\* Submit Feedback of one session: rl_agent.update(rating, output, ...) is entered
CallUpdate(t) ==
    /\ At(t, "idle")
    /\ \E rating \in Ratings, name \in InputNames :
          race' = [race EXCEPT !.pc[t] = "append", !.rating[t] = rating, !.input[t] = name]
    /\ UNCHANGED <<state, disk, clock, raceRest>>

\* the arguments of the update of thread t
ArgsOf(t) == Inputs[race.input[t]]

\* the feedback_record thread t builds when datetime.now() is now
RecordOf(t, now) ==
    FeedbackRecord(now, race.rating[t], ArgsOf(t).output, ArgsOf(t).style,
                   FocusAreas(ArgsOf(t).focus_areas),
                   ExtractTextPatterns(ArgsOf(t).output), ArgsOf(t).metadata)

\* self.state["feedback_history"].append(feedback_record)
AppendRecord(t) ==
    /\ At(t, "append")
    /\ state' = [state EXCEPT !.feedback_history = Append(@, RecordOf(t, clock))]
    /\ clock' = clock + 1
    /\ race' = Goto(t, "load_total")
    /\ UNCHANGED <<disk, raceRest>>

\* self.state["total_feedback"] += 1: the value is read
LoadTotal(t) ==
    /\ At(t, "load_total")
    /\ race' = [race EXCEPT !.pc[t] = "store_total", !.read[t] = state.total_feedback]
    /\ UNCHANGED <<state, disk, clock, raceRest>>

\* self.state["total_feedback"] += 1: the sum is stored
StoreTotal(t) ==
    /\ At(t, "store_total")
    /\ state' = [state EXCEPT !.total_feedback = race.read[t] + 1]
    /\ race' = Goto(t, "learn")
    /\ UNCHANGED <<disk, clock, raceRest>>

\* the rating branch up to the style: good_feedback_count and pattern_weights
LearnWeights(t) ==
    LET text_patterns == ExtractTextPatterns(ArgsOf(t).output)
        pdeltas == [i \in 1..Len(text_patterns) |->
                       Item(text_patterns[i].k,
                            PatternDelta(race.rating[t], text_patterns[i].v))]
    IN  /\ At(t, "learn")
        /\ state' = [state EXCEPT
                        !.good_feedback_count = CountGood(@, race.rating[t]),
                        !.pattern_weights.items = AddItems(@, pdeltas)]
        /\ race' = Goto(t, "load_style")
        /\ UNCHANGED <<disk, clock, raceRest>>

\* self.state["style_preferences"][style_preference] += ...: the value is read
LoadStyle(t) ==
    /\ At(t, "load_style")
    /\ race' = [race EXCEPT !.pc[t] = "store_style",
                            !.read[t] = Get(state.style_preferences.items, ArgsOf(t).style)]
    \* reading a missing key of the defaultdict inserts it
    /\ state' = [state EXCEPT !.style_preferences.items = AddTo(@, ArgsOf(t).style, 0)]
    /\ UNCHANGED <<disk, clock, raceRest>>

\* self.state["style_preferences"][style_preference] += ...: the sum is stored
StoreStyle(t) ==
    /\ At(t, "store_style")
    /\ state' = [state EXCEPT !.style_preferences.items =
                        Put(@, ArgsOf(t).style, race.read[t] + KeyDelta(race.rating[t]))]
    /\ race' = Goto(t, "finish")
    /\ UNCHANGED <<disk, clock, raceRest>>

\* the focus areas, the successful_patterns entry and the two trims
FinishUpdate(t) ==
    LET focus_areas == FocusAreas(ArgsOf(t).focus_areas)
        fdeltas == [i \in 1..Len(focus_areas) |->
                       Item(focus_areas[i], KeyDelta(race.rating[t]))]
    IN  /\ At(t, "finish")
        /\ state' = [state EXCEPT
                        !.focus_area_effectiveness.items = AddItems(@, fdeltas),
                        !.successful_patterns =
                            TrimPatterns(LearnPatterns(@, clock - 1, race.rating[t],
                                                       ExtractTextPatterns(ArgsOf(t).output),
                                                       ArgsOf(t).style, focus_areas)),
                        !.feedback_history = TrimHistory(@)]
        /\ clock' = IF race.rating[t] = "Good" THEN clock + 1 ELSE clock
        /\ race' = Goto(t, "save")
        /\ UNCHANGED <<disk, raceRest>>

\* the fields of the state that hold a list
ListFields == {"feedback_history", "successful_patterns"}

\* save_state, its loop: save_state[key] = dict(value) for the mappings,
\* save_state[key] = value for the rest.  The mappings are copied, the
\* counters are taken by value, and the lists are the lists of self.state.
BuildSnapshot(t) ==
    /\ At(t, "save")
    /\ race' = [race EXCEPT !.pc[t] = "write", !.save_state[t] = state]
    /\ UNCHANGED <<state, disk, clock, raceRest>>

\* what json.dump writes for thread t: the copies the loop made, and the
\* lists as they are now
Written(t) ==
    [k \in DOMAIN state |-> IF k \in ListFields THEN state[k] ELSE race.save_state[t][k]]

\* save_state, the with block: the file is opened, written and closed; and
\* update returns
WriteAndReturn(t) ==
    /\ At(t, "write")
    /\ disk' = SaveState(Written(t), disk, "ok").disk
    /\ race' = Goto(t, "returned")
    /\ UNCHANGED <<state, clock, raceRest>>

NextRace ==
    \E t \in Threads :
        \/ CallUpdate(t)
        \/ AppendRecord(t)
        \/ LoadTotal(t)
        \/ StoreTotal(t)
        \/ LearnWeights(t)
        \/ LoadStyle(t)
        \/ StoreStyle(t)
        \/ FinishUpdate(t)
        \/ BuildSnapshot(t)
        \/ WriteAndReturn(t)

SpecRace == InitRace /\ [][NextRace]_vars

(* ------------------------------------------------------------------ *)
(* Speech playback (src/voice_support.py)                              *)
(* ------------------------------------------------------------------ *)

\* The module keeps four globals, is_speaking, speak_thread, stop_requested
\* and current_engine.  speak_text and stop_speaking run on the script thread
\* of the front end, one call at a time; every speak_text starts a worker
\* thread that runs _speak_worker.  A step below is one statement of these
\* functions, so that the script thread and the workers interleave between
\* statements.
\*
\* The engine is the object pyttsx3.init() returns, by the interface the
\* source uses: init() hands out the engine in use while there is one, say()
\* queues an utterance, runAndWait() speaks what is queued and returns when
\* that is done and raises when a loop is already running, stop() ends the
\* utterance being spoken and clears what is queued, _inLoop tells whether a
\* loop is running.

\* the worker has been started and has not ended
Alive(v, w) == v.worker[w].pc \notin {"new", "dead"}

\* no worker runs, no engine is held and is_speaking is False
NothingPlaying(v) ==
    /\ \A w \in Workers : ~Alive(v, w)
    /\ v.current_engine = "None"
    /\ ~v.is_speaking
    /\ v.uttering = 0

\* engine.stop()
EngineStop(v) == [v EXCEPT !.queue = <<>>, !.batch = <<>>, !.uttering = 0]

\* stop_requested = True
RequestStop(v) == [v EXCEPT !.stop_requested = TRUE]

\* stop_requested = False with the assignment left out
ResetFlagsNot(v) == v

\* stop_requested = False
ResetFlags(v) == [v EXCEPT !.stop_requested = FALSE]

\* the worker w goes on at pc
Jump(v, w, pc) == [v EXCEPT !.worker[w].pc = pc]

\* the worker w goes on with its next sentence
NextSentence(v, w) == [v EXCEPT !.worker[w].pc = "for", !.worker[w].i = @ + 1]

\* an exception in the try block of the worker: it is printed, and the
\* finally block runs
Except(v, w, error) == [v EXCEPT !.worker[w].pc = "finally", !.worker[w].error = error]

\* what a use of current_engine raises when it is None or deleted
EngineError(v) == IF v.current_engine = "unbound" THEN "NameError" ELSE "AttributeError"

(* ---- the script thread ---- *)

\* the script thread enters speak_text or stop_speaking
CallStarts(v, op, pc, n) ==
    [v EXCEPT !.call = [op |-> op, pc |-> pc, nested |-> FALSE, n |-> n],
              !.error = "",
              !.before = Globals(v),
              !.idle_stop = (op = "stop_speaking" /\ NothingPlaying(v)),
              !.stopped = IF op = "speak_text" THEN FALSE ELSE @,
              !.worker = [w \in Workers |->
                             [v.worker[w] EXCEPT !.clean = IF Alive(v, w) THEN 0 ELSE @]]]

\* the call of the script thread ends, by a return or by an exception
CallEnds(v, error) ==
    [v EXCEPT !.call = CallIdle,
              !.error = error,
              !.stopped = IF v.call.op = "stop_speaking" THEN TRUE ELSE @,
              !.idle_stops = IF v.call.op = "stop_speaking" /\ v.idle_stop /\ error = ""
                             THEN @ + 1 ELSE 0]

\* stop_speaking returns: to the front end, or into speak_text
StopReturns(v) ==
    IF v.call.nested THEN [v EXCEPT !.call.pc = "sleep", !.call.nested = FALSE]
    ELSE CallEnds(v, "")

voiceRest == <<agentVars, probe, race, sess>>

\* the front end calls speak_text(text)
CallSpeakText ==
    /\ voice.call.op = "none"
    /\ voice.speaks < MaxSpeaks
    /\ \E n \in 1..MaxSentences : voice' = CallStarts(voice, "speak_text", "if", n)
    /\ UNCHANGED voiceRest

\* the front end calls stop_speaking()
CallStopSpeaking ==
    /\ voice.call.op = "none"
    /\ voice.stops < MaxStops
    /\ voice' = [CallStarts(voice, "stop_speaking", "flag", 0) EXCEPT !.stops = @ + 1]
    /\ UNCHANGED voiceRest

\* speak_text: if is_speaking: stop_speaking()
SpeakIfSpeaking ==
    /\ voice.call.op = "speak_text" /\ voice.call.pc = "if"
    /\ voice' = IF voice.is_speaking
                THEN [voice EXCEPT !.call.pc = "flag", !.call.nested = TRUE]
                ELSE [voice EXCEPT !.call.pc = "reset"]
    /\ UNCHANGED voiceRest

\* speak_text: time.sleep(0.5)
SpeakSleep ==
    /\ voice.call.op = "speak_text" /\ voice.call.pc = "sleep"
    /\ voice' = [voice EXCEPT !.call.pc = "reset"]
    /\ UNCHANGED voiceRest

\* speak_text: stop_requested = False
SpeakReset ==
    /\ voice.call.op = "speak_text" /\ voice.call.pc = "reset"
    /\ voice' = [ResetFlags(voice) EXCEPT !.call.pc = "start"]
    /\ UNCHANGED voiceRest

\* speak_text: the worker thread is made and started, and speak_text returns
SpeakStart ==
    LET w == voice.speaks + 1
        started ==
            [voice EXCEPT !.speak_thread = w,
                          !.speaks = w,
                          !.worker[w] = [pc |-> "init", n |-> voice.call.n, i |-> 1,
                                         spoken |-> 0, error |-> "",
                                         clean |-> IF NothingPlaying(voice)
                                                   THEN voice.idle_stops ELSE 0]]
    IN  /\ voice.call.op = "speak_text" /\ voice.call.pc = "start"
        /\ voice' = CallEnds(started, "")
        /\ UNCHANGED voiceRest

\* stop_speaking: stop_requested = True
StopFlag ==
    /\ voice.call.pc = "flag"
    /\ voice' = [RequestStop(voice) EXCEPT !.call.pc = "engine"]
    /\ UNCHANGED voiceRest

\* stop_speaking: if current_engine: current_engine.stop()
StopEngine ==
    /\ voice.call.pc = "engine"
    /\ voice' = CASE voice.current_engine = "unbound" -> CallEnds(voice, "NameError")
                  [] voice.current_engine = "None" -> [voice EXCEPT !.call.pc = "speaking"]
                  [] OTHER -> [EngineStop(voice) EXCEPT !.call.pc = "speaking"]
    /\ UNCHANGED voiceRest

\* stop_speaking: is_speaking = False
StopSpeaking ==
    /\ voice.call.pc = "speaking"
    /\ voice' = [voice EXCEPT !.is_speaking = FALSE, !.call.pc = "join"]
    /\ UNCHANGED voiceRest

\* stop_speaking: speak_thread.join(timeout=2.0) returns, the thread having
\* ended or the two seconds being over
StopJoin ==
    /\ voice.call.pc = "join"
    /\ voice' = [voice EXCEPT !.call.pc = "del"]
    /\ UNCHANGED voiceRest

\* stop_speaking: if current_engine: del current_engine
StopDel ==
    /\ voice.call.pc = "del"
    /\ voice' = CASE voice.current_engine = "unbound" -> CallEnds(voice, "NameError")
                  [] voice.current_engine = "None" -> StopReturns(voice)
                  [] OTHER -> [voice EXCEPT !.current_engine = "unbound",
                                            !.call.pc = "none"]
    /\ UNCHANGED voiceRest

\* stop_speaking: current_engine = None, and it returns
StopNone ==
    /\ voice.call.pc = "none"
    /\ voice' = StopReturns([voice EXCEPT !.current_engine = "None"])
    /\ UNCHANGED voiceRest

(* ---- a worker thread: _speak_worker(text) ---- *)

\* current_engine = pyttsx3.init(), and its two properties
WorkerInit(w) ==
    /\ voice.worker[w].pc = "init"
    /\ voice' = [Jump(voice, w, "mark") EXCEPT
                    !.current_engine = "engine",
                    \* a new engine when none is in use
                    !.queue = IF voice.current_engine # "engine" /\ voice.loop = 0
                              THEN <<>> ELSE @]
    /\ UNCHANGED voiceRest

\* is_speaking = True, and the text is split
WorkerMark(w) ==
    /\ voice.worker[w].pc = "mark"
    /\ voice' = [Jump(voice, w, "for") EXCEPT !.is_speaking = TRUE]
    /\ UNCHANGED voiceRest

\* for sentence in sentences: if stop_requested: break
WorkerFor(w) ==
    /\ voice.worker[w].pc = "for"
    /\ voice' = IF voice.worker[w].i > voice.worker[w].n \/ voice.stop_requested
                THEN Jump(voice, w, "finally")
                ELSE Jump(voice, w, "if")
    /\ UNCHANGED voiceRest

\* if not stop_requested and sentence
WorkerIf(w) ==
    /\ voice.worker[w].pc = "if"
    /\ voice' = IF voice.stop_requested THEN NextSentence(voice, w)
                ELSE Jump(voice, w, "say")
    /\ UNCHANGED voiceRest

\* current_engine.say(sentence)
WorkerSay(w) ==
    /\ voice.worker[w].pc = "say"
    /\ voice' = IF voice.current_engine # "engine" THEN Except(voice, w, EngineError(voice))
                ELSE [Jump(voice, w, "while") EXCEPT !.queue = Append(@, w)]
    /\ UNCHANGED voiceRest

\* while current_engine._inLoop: leave the loop, when no loop runs, on a stop
\* request after current_engine.stop(), or after 30 seconds
WorkerWhile(w) ==
    /\ voice.worker[w].pc = "while"
    /\ voice' = CASE voice.current_engine # "engine" -> Except(voice, w, EngineError(voice))
                  [] voice.loop = 0 -> Jump(voice, w, "if_run")
                  [] voice.stop_requested -> Jump(EngineStop(voice), w, "if_run")
                  [] OTHER -> Jump(voice, w, "if_run")
    /\ UNCHANGED voiceRest

\* if not stop_requested
WorkerIfRun(w) ==
    /\ voice.worker[w].pc = "if_run"
    /\ voice' = IF voice.stop_requested THEN NextSentence(voice, w)
                ELSE Jump(voice, w, "run")
    /\ UNCHANGED voiceRest

\* current_engine.runAndWait() is entered: the loop takes what is queued
WorkerRun(w) ==
    /\ voice.worker[w].pc = "run"
    /\ voice' = CASE voice.current_engine # "engine" -> Except(voice, w, EngineError(voice))
                  [] voice.loop # 0 -> Except(voice, w, "RuntimeError")
                  [] OTHER -> [Jump(voice, w, "wait") EXCEPT
                                  !.loop = w, !.batch = voice.queue, !.queue = <<>>]
    /\ UNCHANGED voiceRest

\* the engine starts the next utterance of its loop
UtterStart ==
    /\ voice.loop # 0 /\ voice.uttering = 0 /\ voice.batch # <<>>
    /\ voice' = [voice EXCEPT !.uttering = Head(voice.batch),
                              !.batch = Tail(voice.batch),
                              !.worker[Head(voice.batch)].spoken = @ + 1]
    /\ UNCHANGED voiceRest

\* the utterance comes to its end
UtterEnd ==
    /\ voice.uttering # 0
    /\ voice' = [voice EXCEPT !.uttering = 0]
    /\ UNCHANGED voiceRest

\* current_engine.runAndWait() returns: nothing is left to speak
WorkerWait(w) ==
    /\ voice.worker[w].pc = "wait"
    /\ voice.loop = w /\ voice.batch = <<>> /\ voice.uttering = 0
    /\ voice' = [NextSentence(voice, w) EXCEPT !.loop = 0]
    /\ UNCHANGED voiceRest

\* finally: is_speaking = False
WorkerFinally(w) ==
    /\ voice.worker[w].pc = "finally"
    /\ voice' = [Jump(voice, w, "cleanup") EXCEPT !.is_speaking = FALSE]
    /\ UNCHANGED voiceRest

\* finally: if current_engine: current_engine.stop(); del current_engine
WorkerCleanup(w) ==
    /\ voice.worker[w].pc = "cleanup"
    /\ voice' = CASE voice.current_engine = "unbound" ->
                        [Jump(voice, w, "dead") EXCEPT !.worker[w].error = "NameError"]
                  [] voice.current_engine = "None" -> Jump(voice, w, "dead")
                  [] OTHER -> [Jump(EngineStop(voice), w, "none") EXCEPT
                                  !.current_engine = "unbound"]
    /\ UNCHANGED voiceRest

\* finally: current_engine = None, and the thread ends
WorkerNone(w) ==
    /\ voice.worker[w].pc = "none"
    /\ voice' = [Jump(voice, w, "dead") EXCEPT !.current_engine = "None"]
    /\ UNCHANGED voiceRest

\* a step of the worker w
WorkerStep(w) ==
    \/ WorkerInit(w)
    \/ WorkerMark(w)
    \/ WorkerFor(w)
    \/ WorkerIf(w)
    \/ WorkerSay(w)
    \/ WorkerWhile(w)
    \/ WorkerIfRun(w)
    \/ WorkerRun(w)
    \/ WorkerWait(w)
    \/ WorkerFinally(w)
    \/ WorkerCleanup(w)
    \/ WorkerNone(w)

\* a step of a call the script thread is in
CallStep ==
    \/ SpeakIfSpeaking
    \/ SpeakSleep
    \/ SpeakReset
    \/ SpeakStart
    \/ StopFlag
    \/ StopEngine
    \/ StopSpeaking
    \/ StopJoin
    \/ StopDel
    \/ StopNone

\* a step of the engine
EngineStep == UtterStart \/ UtterEnd

InitVoice ==
    /\ AgentNew
    /\ pipe = PipeIdle(GoodKey)
    /\ RestIdle

NextVoice ==
    \/ CallSpeakText
    \/ CallStopSpeaking
    \/ CallStep
    \/ EngineStep
    \/ \E w \in Workers : WorkerStep(w)

SpecVoice == InitVoice /\ [][NextVoice]_vars

\* Every thread that can run does run: the script thread goes on with the
\* call it is in, each worker thread goes on, and an utterance ends.
VoiceFairness ==
    /\ WF_vars(CallStep)
    /\ WF_vars(EngineStep)
    /\ \A w \in Workers : WF_vars(WorkerStep(w))

SpecVoiceFair == SpecVoice /\ VoiceFairness

(* ------------------------------------------------------------------ *)
(* The session of the front end (src/app.py)                           *)
(* ------------------------------------------------------------------ *)

\* A session holds scraping_status, original_text, writer_output,
\* reviewer_output and url_processed.  Every press of a button is one run of
\* the script: rl_agent.load_state() first, then the handler of the button.
\* The texts carry the URL of the item they were made from.  The session
\* also keeps how original_text was got (origin), the stages that succeeded in
\* the run of batch_process the two outputs come from (stages), and whether
\* the last scraping or processing failed (failed); the code does not store
\* these, the properties are stated on them.

\* feedback submissions in a run
MaxSubmits == 1

\* files the save buttons write in a run
MaxSaves == 1

UrlA == Url("https", "en.wikisource.org", "Chapter_1")

UrlB == Url("https", "en.wikisource.org", "Chapter_2")

\* what the user can have in the URL field
ChapterUrls == {NoUrl, Url("", "", "Chapter_1"), UrlA, UrlB}

\* validate_url(url)
ValidateUrl(url) == url.scheme # "" /\ url.netloc # ""

\* the text of the chapter at a URL
ChapterAt(url) == IF url = UrlA THEN TextPlain ELSE TextDialogue

\* scrape_chapter(url): the chapter, or the error of the two methods
ScrapeChapter(url) ==
    {[status |-> "success", content |-> ChapterAt(url)],
     [status |-> "error", content |-> <<"Unable", " ", "to", " ", "scrape">>]}

\* the default of the focus areas
FocusDefault == Some(<<"grammar", "clarity", "flow">>)

\* what the user can type into the text area of the reviewer
TextEdited == <<"A", " ", "garden", ".">>

\* get_content_analysis(content): the session its key check leaves; the
\* analysis is shown and plays no part in what follows
GetContentAnalysis(content, api_key, session, now) ==
    {[session |-> v.session] : v \in ValidateApiKey(api_key, session, now)}

\* the request of the agent who got a text back in the run r
StageOk(r, who) ==
    \E i \in 1..Len(r.calls) :
        r.calls[i].who = who /\ r.calls[i].outcome.kind = "text"

\* the stages of batch_process that succeeded in the run r, in their order
StagesOf(r) ==
    IF ~StageOk(r, "writer") THEN <<>>
    ELSE IF ~StageOk(r, "reviewer") THEN <<"writer">>
    ELSE <<"writer", "reviewer">>

\* rl_agent.load_state() at the top of the script
Loaded == LoadState(state, disk, "ok")

\* batch_process(content, style_preference, focus_areas) as the handlers see
\* it: what a run returns, the session it leaves, and the stages that succeeded
Processing(content) ==
    {[ret |-> IF r.ret.status = "completed"
              THEN [status |-> "completed", writer_output |-> r.ret.writer_output,
                    reviewer_output |-> r.ret.reviewer_output]
              ELSE [status |-> r.ret.status],
      session |-> r.session, read |-> r.read, stages |-> StagesOf(r)]
     : r \in BatchProcess(content, "modern", FocusDefault, pipe.api_key, pipe.session,
                          pipe.now, Loaded.state)}

\* the results view with the feedback form is shown
AwaitingFeedback(s) ==
    /\ s.scraping_status \in {"completed", "loaded_from_search"}
    /\ s.original_text.text # <<>>

agentGhost == <<faults, log, goodLog, fromEmpty, lastWrite, memAtFail, resetRun, plan>>

sessRest == <<probe, race, voice>>

\* a run of the script that leaves the agent as load_state made it
ScriptRuns(st) ==
    /\ state' = st
    /\ disk' = Loaded.disk
    /\ UNCHANGED <<clock, last, calls, agentGhost, sessRest>>

\* batch_process has taken the run r: the session keeps the validation of
\* the key; what was returned is in the handler's hands
Processed(content, r, session) ==
    /\ pipe' = [pipe EXCEPT !.session = session]
    /\ ScriptRuns(IF r.read THEN AfterRead(Loaded.state) ELSE Loaded.state)

\* the handler shows a message (st.error) and leaves the session as it is
Shown(message) ==
    /\ UNCHANGED <<sess, pipe>>
    /\ ScriptRuns(Loaded.state)

\* Scrape & Process Chapter: the scraping failed
ScrapeFailed(url) ==
    /\ sess' = [sess EXCEPT !.scraping_status = "error", !.failed = TRUE]
    /\ UNCHANGED pipe
    /\ ScriptRuns(Loaded.state)

\* Scrape & Process Chapter: the chapter was scraped and batch_process has
\* taken the run r
Scraped(url, content, r) ==
    LET scraped == [sess EXCEPT !.original_text = SessionText(content, url),
                                !.url_processed = url,
                                !.scraping_status = "scraped",
                                !.origin = "scraped"]
    IN  IF r.ret.status = "completed"
        THEN \E a \in GetContentAnalysis(content, pipe.api_key, r.session, pipe.now) :
                /\ sess' = [scraped EXCEPT
                               !.writer_output = SessionText(r.ret.writer_output, url),
                               !.reviewer_output = SessionText(r.ret.reviewer_output, url),
                               !.scraping_status = "completed",
                               !.stages = r.stages,
                               !.failed = (r.stages # <<"writer", "reviewer">>)]
                /\ Processed(content, r, a.session)
        ELSE /\ sess' = [scraped EXCEPT !.failed = TRUE]
             /\ Processed(content, r, r.session)

\* the button Scrape & Process Chapter
ScrapeAndProcess ==
    \E url \in ChapterUrls :
        IF url = NoUrl THEN Shown("Please enter a chapter URL first!")
        ELSE IF ~ValidateUrl(url) THEN Shown("Please enter a valid URL!")
        ELSE \E scraped \in ScrapeChapter(url) :
                IF scraped.status = "success"
                THEN \E r \in Processing(scraped.content) :
                        Scraped(url, scraped.content, r)
                ELSE ScrapeFailed(url)

\* the button Re-run AI Agents Only
RerunAgents ==
    /\ sess.original_text.text # <<>>
    /\ \E r \in Processing(sess.original_text.text) :
          LET of == sess.original_text.of
          IN  /\ sess' = IF r.ret.status = "completed"
                         THEN [sess EXCEPT
                                  !.writer_output = SessionText(r.ret.writer_output, of),
                                  !.reviewer_output = SessionText(r.ret.reviewer_output, of),
                                  !.stages = r.stages,
                                  !.failed = (r.stages # <<"writer", "reviewer">>)]
                         ELSE [sess EXCEPT !.failed = TRUE]
              /\ Processed(sess.original_text.text, r, r.session)

\* the chapters in the store: those a save has added
Library(s) == {s.files[i] : i \in {j \in 1..Len(s.files) : s.files[j].added}}

\* the button Load This Chapter of a search result
LoadThisChapter ==
    \E chapter \in Library(sess) :
        /\ sess' = [sess EXCEPT !.original_text = chapter.reviewer_output,
                                !.writer_output = chapter.reviewer_output,
                                !.reviewer_output = chapter.reviewer_output,
                                !.url_processed = chapter.source_url,
                                !.scraping_status = "loaded_from_search",
                                !.origin = "loaded",
                                !.stages = <<>>,
                                !.failed = FALSE]
        /\ UNCHANGED pipe
        /\ ScriptRuns(Loaded.state)

\* the file a save button writes, by its source URL and its text; the chapter is added to the store when the
\* user has enabled the store and add_chapter succeeds
Saved ==
    \E added \in BOOLEAN :
        /\ Len(sess.files) < MaxSaves
        /\ sess' = [sess EXCEPT
                       !.files = Append(@, [source_url |-> sess.url_processed,
                                            reviewer_output |-> sess.reviewer_output,
                                            added |-> added])]
        /\ UNCHANGED pipe
        /\ ScriptRuns(Loaded.state)

\* the button Quick Save
QuickSave ==
    /\ sess.reviewer_output.text # <<>>
    /\ Saved

\* the button Save with Feedback
SaveWithFeedback ==
    /\ sess.scraping_status = "completed"
    /\ Saved

\* the user edits the text area of the reviewer in the results view
EditReviewerOutput ==
    /\ AwaitingFeedback(sess)
    /\ sess.reviewer_output.text # TextEdited
    /\ sess' = [sess EXCEPT !.reviewer_output.text = TextEdited]
    /\ UNCHANGED pipe
    /\ ScriptRuns(Loaded.state)

\* the button Submit Feedback
SubmitFeedback ==
    /\ AwaitingFeedback(sess)
    /\ sess.submits < MaxSubmits
    /\ \E rating \in Ratings :
          LET metadata == Some(<<Item("source_url", sess.url_processed.path)>>)
              st2 == UpdateState(Loaded.state, clock, rating, sess.reviewer_output.text,
                                 "modern", FocusDefault, metadata)
              sv == SaveState(st2, Loaded.disk, "ok")
          IN  /\ state' = st2
              /\ disk' = sv.disk
              /\ clock' = ClockAfterUpdate(clock)
              /\ last' = Did("update", sv.outcome, rating, "", "", <<>>)
              /\ calls' = calls + 1
    /\ sess' = [sess EXCEPT !.submits = @ + 1]
    /\ UNCHANGED <<pipe, agentGhost, sessRest>>

InitSession ==
    /\ AgentNew
    /\ pipe = PipeIdle(GoodKey)
    /\ probe = ProbeIdle
    /\ race = RaceIdle
    /\ voice = VoiceIdle
    /\ sess = SessIdle

NextSession ==
    \/ ScrapeAndProcess
    \/ RerunAgents
    \/ LoadThisChapter
    \/ QuickSave
    \/ SaveWithFeedback
    \/ EditReviewerOutput
    \/ SubmitFeedback

SpecSession == InitSession /\ [][NextSession]_vars

(* ------------------------------------------------------------------ *)
(* Properties                                                          *)
(* ------------------------------------------------------------------ *)

Min(a, b) == IF a < b THEN a ELSE b

\* s holds exactly the last Min(Len(all), cap) elements of all, in order
IsRecentSuffix(s, all, cap) ==
    /\ Len(s) = Min(Len(all), cap)
    /\ \A i \in 1..Len(s) : s[i] = all[Len(all) - Len(s) + i]

Weights(st, field) == st[field].items

\* every field of the snapshot data equals the field of the in-memory state st
SameAsSnapshot(st, data) ==
    /\ DOMAIN data = StateFields
    /\ \A k \in StateFields :
        IF k \in WeightFields
        THEN data[k].t = "dict" /\ st[k].t = "defaultdict" /\ data[k].items = st[k].items
        ELSE data[k] = st[k]

IsEmptyState(st) ==
    /\ st.total_feedback = 0
    /\ st.good_feedback_count = 0
    /\ st.feedback_history = <<>>
    /\ st.successful_patterns = <<>>
    /\ \A f \in WeightFields : st[f].t = "defaultdict" /\ st[f].items = <<>>

(* C1: starting from the empty state, after any sequence of update and       *)
(* reset_learning calls good_feedback_count <= total_feedback,               *)
(* total_feedback is the number of update calls since the last reset, and    *)
(* good_feedback_count is the number of those calls rated Good.              *)
C1_Counters ==
    fromEmpty =>
        /\ state.good_feedback_count <= state.total_feedback
        /\ state.total_feedback = Len(log)
        /\ state.good_feedback_count = Cardinality(GoodIn(log))

\* a reset lies between two updates, and the one after it was rated Bad
C1_Witness ==
    /\ fromEmpty
    /\ calls = 2
    /\ state.total_feedback = 1
    /\ state.good_feedback_count = 0
    /\ last.op = "update"

(* C2: after every update feedback_history has at most 100 records, which    *)
(* are the records of the most recent min(n, 100) update calls since the     *)
(* last reset, in call order; after 101 updates the first record is gone.    *)
C2_History ==
    /\ Len(state.feedback_history) <= 100
    /\ IsRecentSuffix(state.feedback_history, log, 100)

C2_Witness ==
    /\ Len(log) = 101
    /\ Len(state.feedback_history) = 100
    /\ state.feedback_history[1] = log[2]
    /\ state.feedback_history[1] # log[1]

(* C3: successful_patterns has at most 50 entries, each appended by an       *)
(* update rated Good, and they are the most recent min(g, 50) Good updates   *)
(* in call order; a Bad update leaves it as it was.                          *)
C3_Patterns ==
    /\ Len(state.successful_patterns) <= 50
    /\ IsRecentSuffix(state.successful_patterns, goodLog, 50)
    /\ Len(goodLog) = Cardinality(GoodIn(log))

C3_Witness ==
    /\ Len(goodLog) = 51
    /\ Len(state.successful_patterns) = 50
    /\ state.successful_patterns[1] = goodLog[2]
    /\ last.op = "update"
    /\ last.rating = "Bad"

SeqRange(s) == {s[i] : i \in 1..Len(s)}

\* the features of the texts of Inputs
InputPatterns == [name \in InputNames |-> ExtractTextPatterns(Inputs[name].output)]

\* the keys update(.., the arguments named name) touches in field
Touched(name, field) ==
    CASE field = "style_preferences" -> {Inputs[name].style}
      [] field = "focus_area_effectiveness" -> SeqRange(FocusAreas(Inputs[name].focus_areas))
      [] field = "pattern_weights" -> Keys(InputPatterns[name])

\* after is before with one update(rating, the arguments named name) applied to
\* the weight mappings, by the rule with the factor 1 / parts for a Bad rating
FollowsRule(before, after, rating, name, parts) ==
    \A field \in WeightFields :
        LET old == Weights(before, field)
            new == Weights(after, field)
        IN  /\ Keys(new) = Keys(old) \cup Touched(name, field)
            /\ \A k \in Keys(new) :
                LET gain  == Get(new, k) - Get(old, k)
                    value == IF field = "pattern_weights"
                             THEN Get(InputPatterns[name], k) ELSE One
                IN  IF k \notin Touched(name, field) THEN gain = 0
                    ELSE IF rating = "Good" THEN gain = value
                         ELSE parts * gain = -value

C4_Step ==
    last'.op = "update" => FollowsRule(state, state', last'.rating, last'.input, 4)

(* C4: one update changes the weight mappings exactly so: a Good rating adds *)
(* 1.0 to style_preferences[style] and to focus_area_effectiveness[a] for    *)
(* each focus area a, and the feature's value to pattern_weights[f]; a Bad   *)
(* rating adds -0.25 and -0.25 times the feature's value; a key not present  *)
(* before is read as 0; no other key changes or appears.                     *)
C4_WeightRule == [][C4_Step]_vars

\* a Bad update has lowered a weight a Good update had raised
C4_Witness ==
    /\ last.op = "update"
    /\ last.rating = "Bad"
    /\ Get(Weights(state, "style_preferences"), Inputs[last.input].style) = One - One \div 4
    /\ Keys(Weights(state, "pattern_weights")) # {}

\* what update(rating, the arguments named name) would make of the state
Updated(rating, name) ==
    UpdateState(state, clock, rating, Inputs[name].output, Inputs[name].style,
                Inputs[name].focus_areas, Inputs[name].metadata)

\* in every touched weight, parts times the change of the Bad update is the
\* change of the Good update with the sign turned
BadIsGoodOver(parts) ==
    \A name \in InputNames :
        LET good == Updated("Good", name)
            bad  == Updated("Bad", name)
        IN  \A field \in WeightFields :
                LET old == Weights(state, field)
                    g   == Weights(good, field)
                    b   == Weights(bad, field)
                IN  \A k \in Touched(name, field) :
                        parts * (Get(b, k) - Get(old, k)) = -(Get(g, k) - Get(old, k))

(* C5 as stated: for the same text, style and focus areas a Bad update       *)
(* moves every affected weight opposite to a Good update and by exactly      *)
(* half the magnitude of the Good update's change.                           *)
C5_HalfMagnitude == BadIsGoodOver(2)

(* C5 as amended: for the same text, style and focus areas a Bad update      *)
(* moves every affected weight opposite to a Good update and by exactly a    *)
(* quarter of the magnitude of the Good update's change.                     *)
C5_QuarterMagnitude == BadIsGoodOver(4)

\* a Bad update of a text with features has acted on weights that a Good one set
C5_Witness ==
    /\ last.op = "update"
    /\ last.rating = "Bad"
    /\ last.input = "dialogue"
    /\ state.good_feedback_count = 1
    /\ Get(Weights(state, "pattern_weights"), "dialogue_density") > 0

StyleLine(k) == <<"- ", Line("Focus on {style} writing style", k)>>

\* the styles of the largest weight
TopStyles(st) ==
    LET sp == Weights(st, "style_preferences")
    IN  {k \in Keys(sp) : \A j \in Keys(sp) : Get(sp, j) <= Get(sp, k)}

(* C6: get_adaptive_prompt_instructions returns the empty string for both    *)
(* agent types whenever total_feedback < 3, whatever the weights; and when   *)
(* total_feedback >= 3 and the top-weighted style has a weight above 0 the   *)
(* result is not empty and has a line that names that style.                 *)
C6_Gate ==
    \A agent \in AgentTypes :
        LET r  == GetAdaptivePromptInstructions(state, agent)
            sp == Weights(state, "style_preferences")
        IN  /\ state.total_feedback < 3 => r = <<>>
            /\ (state.total_feedback >= 3 /\ \E k \in TopStyles(state) : Get(sp, k) > 0) =>
                  /\ r # <<>>
                  /\ \E i \in 1..Len(r), k \in TopStyles(state) : r[i] = StyleLine(k)

\* the third update has been made and the call returned a line naming a style
C6_Witness ==
    /\ last.op = "get_adaptive_prompt_instructions"
    /\ state.total_feedback = 3
    /\ \E i \in 1..Len(last.ret), k \in TopStyles(state) : last.ret[i] = StyleLine(k)

(* C7: whenever update or reset_learning has returned normally the           *)
(* persisted snapshot is a complete rewrite that equals the in-memory state  *)
(* in all seven fields, and stays equal to it until the next such call.      *)
C7_WriteThrough ==
    lastWrite = "ok" => disk.kind = "json" /\ SameAsSnapshot(state, disk.data)

\* the second update of a run that began with an older, smaller snapshot
C7_Witness ==
    /\ lastWrite = "ok"
    /\ last.op = "update"
    /\ state.total_feedback = 2
    /\ state.good_feedback_count = 1

(* C8 as stated: when the write of an update fails the failure is reported   *)
(* to the caller and the in-memory state keeps all effects of that update    *)
(* for the rest of the process lifetime: until the next update or            *)
(* reset_learning nothing replaces it with the older persisted snapshot.     *)
C8_NoRollback ==
    lastWrite = "update_failed" =>
        /\ last.op = "update" => last.outcome = "raised"
        /\ state = memAtFail

C9_Step ==
    last'.op = "reset_learning" =>
        /\ IsEmptyState(state')
        /\ last'.outcome = "ok" => disk'.kind = "json" /\ SameAsSnapshot(state', disk'.data)
        /\ (last.op = "reset_learning" /\ last.outcome = "ok" /\ last'.outcome = "ok") =>
              state' = state /\ disk' = disk

(* C9: reset_learning sets both counters to 0 and empties both logs and all  *)
(* three weight mappings, and on a normal return that state is what is       *)
(* persisted; a second call right after the first leaves the in-memory and   *)
(* the persisted state as the first call left them.                          *)
C9_ResetIdempotent == [][C9_Step]_vars

\* reset_learning was called twice in a row in a run that had made updates
C9_Witness ==
    /\ resetRun = 2
    /\ last.op = "reset_learning"
    /\ last.outcome = "ok"
    /\ calls >= 1
    /\ disk.kind = "json"

(* C10 as stated: after load_state returns, whenever it is called, every     *)
(* field present in the snapshot has the snapshot's value and every field    *)
(* absent from it has its default value; if no snapshot exists the           *)
(* in-memory state is the fresh default state and that state is persisted.   *)
C10_LoadMerges ==
    (last.op \in {"load_state", "__init__"} /\ last.outcome = "ok") =>
        IF last.ret = <<"FileNotFoundError">>
        THEN IsEmptyState(state) /\ disk.kind = "json" /\ SameAsSnapshot(state, disk.data)
        ELSE \A k \in StateFields :
                IF k \in DOMAIN disk.data
                THEN IF k \in WeightFields
                     THEN state[k].t = "defaultdict" /\ state[k].items = disk.data[k].items
                     ELSE state[k] = disk.data[k]
                ELSE state[k] = DefaultState[k]

\* the operations that only read the state
ReadOps == {"get_smart_suggestions", "get_adaptive_prompt_instructions", "get_learning_stats"}

C11_Step ==
    last'.op \in ReadOps \cup {"update", "load_state"} =>
        \A f \in WeightFields : Keys(Weights(state, f)) \subseteq Keys(Weights(state', f))

(* C11 as stated: between resets the key set of each of pattern_weights,     *)
(* style_preferences and focus_area_effectiveness only grows: no update,     *)
(* load_state or read call removes a key that was present before the call.   *)
C11_KeysGrow == [][C11_Step]_vars

C12_Step ==
    last'.op \in ReadOps =>
        /\ state' = state
        /\ disk' = disk
        /\ (last.op = last'.op /\ last.agent = last'.agent) => last'.ret = last.ret

LinesOf(ret) == {ret[i][2].line : i \in 1..Len(ret)}

(* C13: when total_feedback > 0, get_smart_suggestions returns as            *)
(* recommended_style a style of the highest weight if that weight is above   *)
(* 0, with confidence_score = min(weight / 5.0, 1.0), and 'modern' with      *)
(* confidence 0 if no style has a weight above 0; the weights {modern: 2.0,  *)
(* classic: -1.0} give 'modern' and 0.4, a weight >= 5.0 gives 1.0.          *)
C13_BestStyle ==
    state.total_feedback > 0 =>
        LET r  == GetSmartSuggestions(state)
            sp == Weights(state, "style_preferences")
            w  == Get(sp, r.recommended_style)
        IN  /\ IF \E k \in Keys(sp) : Get(sp, k) > 0
               THEN /\ r.recommended_style \in TopStyles(state)
                    /\ 5 * r.confidence_score = Min(w, 5 * One)
               ELSE r.recommended_style = "modern" /\ r.confidence_score = 0
            /\ (sp = <<Item("modern", 2 * One), Item("classic", -One)>>) =>
                  r.recommended_style = "modern" /\ 10 * r.confidence_score = 4 * One
            /\ (\E k \in Keys(sp) : Get(sp, k) >= 5 * One) => r.confidence_score = One

\* the suggestions were read from the weights {modern: 2.0, classic: -1.0}
C13_Witness ==
    /\ last.op = "get_smart_suggestions"
    /\ Weights(state, "style_preferences") = <<Item("modern", 2 * One), Item("classic", -One)>>
    /\ last.ret.recommended_style = "modern"
    /\ 10 * last.ret.confidence_score = 4 * One

\* the areas of the list xs are pairwise different
NoRepeats(xs) == \A i, j \in 1..Len(xs) : i # j => xs[i] # xs[j]

(* C14: when total_feedback > 0, recommended_focus_areas holds the focus     *)
(* areas of weight above 0 in descending order of weight, cut to the first   *)
(* 3: never an area of weight <= 0, never more than 3 entries, no area left  *)
(* out that outweighs a listed one; when no area has a weight above 0 it is  *)
(* exactly ['grammar', 'clarity', 'flow'].                                   *)
C14_BestFocusAreas ==
    state.total_feedback > 0 =>
        LET r   == GetSmartSuggestions(state).recommended_focus_areas
            fa  == Weights(state, "focus_area_effectiveness")
            pos == {k \in Keys(fa) : Get(fa, k) > 0}
        IN  IF pos = {} THEN r = <<"grammar", "clarity", "flow">>
            ELSE /\ Len(r) = Min(Cardinality(pos), 3)
                 /\ SeqRange(r) \subseteq pos
                 /\ NoRepeats(r)
                 /\ \A i \in 1..(Len(r) - 1) : Get(fa, r[i]) >= Get(fa, r[i + 1])
                 /\ \A k \in pos \ SeqRange(r) : \A i \in 1..Len(r) : Get(fa, k) <= Get(fa, r[i])

\* five areas have a weight above 0, the last inserted of them the largest but
\* one, and the suggestions list three of them
C14_Witness ==
    /\ last.op = "get_smart_suggestions"
    /\ Cardinality({k \in Keys(Weights(state, "focus_area_effectiveness")) :
                       Get(Weights(state, "focus_area_effectiveness"), k) > 0}) = 5
    /\ Len(last.ret.recommended_focus_areas) = 3
    /\ last.ret.recommended_focus_areas[2] = "style"

ContinueLine == "Continue with the current approach"
FundamentalsLine == "Focus on fundamental quality improvements"

(* C15: for total_feedback >= 3 the success-rate rule emits the 'continue    *)
(* with the current approach' line iff 100 * good / total > 70, the          *)
(* 'fundamental quality improvements' line iff 100 * good / total < 50, and  *)
(* neither when the rate is in [50, 70]; never both.  With total 10 and good *)
(* 7 the rule emits no line.                                                 *)
C15_RateRule ==
    state.total_feedback >= 3 =>
        \A agent \in AgentTypes :
            LET lines == LinesOf(GetAdaptivePromptInstructions(state, agent))
                good  == state.good_feedback_count
                total == state.total_feedback
            IN  /\ ContinueLine \in lines <=> 100 * good > 70 * total
                /\ FundamentalsLine \in lines <=> 100 * good < 50 * total
                /\ ~(ContinueLine \in lines /\ FundamentalsLine \in lines)
                /\ (total = 10 /\ good = 7) =>
                      ContinueLine \notin lines /\ FundamentalsLine \notin lines

\* the instructions were read at 7 Good of 10 and have neither line
C15_Witness ==
    /\ last.op = "get_adaptive_prompt_instructions"
    /\ state.total_feedback = 10
    /\ state.good_feedback_count = 7
    /\ last.ret # <<>>
    /\ ContinueLine \notin LinesOf(last.ret)
    /\ FundamentalsLine \notin LinesOf(last.ret)

\* the canned instruction and the threshold of each known feature
KnownFeatures ==
    [avg_sentence_length |-> [line |-> "Use varied sentence lengths", above |-> 2 * One],
     dialogue_density    |-> [line |-> "Include natural dialogue", above |-> One],
     descriptive_density |-> [line |-> "Use rich, descriptive language", above |-> One],
     transition_density  |-> [line |-> "Use smooth transitions", above |-> One]]

PatternLines == {KnownFeatures[f].line : f \in DOMAIN KnownFeatures}

(* C16 as stated: for total_feedback >= 3 the result has at most one         *)
(* pattern-based line, and it is the canned instruction of the               *)
(* highest-weighted feature among the features whose name is in the known    *)
(* set; it is emitted iff that feature's weight exceeds its threshold (> 2   *)
(* for avg_sentence_length, > 1 for the other three).                        *)
C16_TopKnownPattern ==
    state.total_feedback >= 3 =>
        \A agent \in AgentTypes :
            LET ret   == GetAdaptivePromptInstructions(state, agent)
                pw    == Weights(state, "pattern_weights")
                known == Keys(pw) \cap DOMAIN KnownFeatures
                tops  == {f \in known : \A g \in known : Get(pw, g) <= Get(pw, f)}
                made  == {i \in 1..Len(ret) : ret[i][2].line \in PatternLines}
            IN  /\ Cardinality(made) <= 1
                /\ IF known = {} THEN made = {}
                   ELSE \E f \in tops :
                           /\ KnownFeatures[f].line \in LinesOf(ret)
                                <=> Get(pw, f) > KnownFeatures[f].above
                           /\ LinesOf(ret) \cap PatternLines \subseteq {KnownFeatures[f].line}

\* the line each focus area triggers, and for which agent_type
FocusLines ==
    [engagement |-> [line |-> "Prioritize reader engagement", agent |-> "writer"],
     style      |-> [line |-> "Pay special attention to style", agent |-> "writer"],
     grammar    |-> [line |-> "Thoroughly review grammar", agent |-> "reviewer"],
     clarity    |-> [line |-> "Ensure exceptional clarity", agent |-> "reviewer"],
     flow       |-> [line |-> "Optimize flow", agent |-> "reviewer"]]

\* the focus areas that outweigh a, and those other than a that weigh no less
Heavier(fa, a) == {b \in Keys(fa) : Get(fa, b) > Get(fa, a)}
NoLighter(fa, a) == {b \in Keys(fa) \ {a} : Get(fa, b) >= Get(fa, a)}

(* C17: for total_feedback >= 3 the focus-area rule considers only the top   *)
(* three focus areas of weight above 0: for 'writer' it emits one line for   *)
(* each of 'engagement' and 'style' among them and no grammar, clarity or    *)
(* flow line; for 'reviewer' one line for each of 'grammar', 'clarity',      *)
(* 'flow' among them and no engagement or style line; an area of weight <= 0 *)
(* or ranked fourth or lower never triggers a line.                          *)
C17_FocusRule ==
    state.total_feedback >= 3 =>
        \A agent \in AgentTypes :
            LET ret == GetAdaptivePromptInstructions(state, agent)
                fa  == Weights(state, "focus_area_effectiveness")
            IN  \A a \in DOMAIN FocusLines :
                    LET made == {i \in 1..Len(ret) : ret[i][2].line = FocusLines[a].line}
                    IN  /\ Cardinality(made) <= 1
                        /\ made # {} =>
                              /\ FocusLines[a].agent = agent
                              /\ Get(fa, a) > 0
                              /\ Cardinality(Heavier(fa, a)) < 3
                        /\ (/\ FocusLines[a].agent = agent
                            /\ Get(fa, a) > 0
                            /\ Cardinality(NoLighter(fa, a)) < 3) => made # {}

\* the writer's instructions were read while 'engagement' had a weight above 0
\* and three areas outweighed it: it triggered no line
C17_Witness ==
    /\ last.op = "get_adaptive_prompt_instructions"
    /\ last.agent = "writer"
    /\ state.total_feedback >= 3
    /\ Get(Weights(state, "focus_area_effectiveness"), "engagement") > 0
    /\ Cardinality(Heavier(Weights(state, "focus_area_effectiveness"), "engagement")) = 3
    /\ last.ret # <<>>
    /\ FocusLines["engagement"].line \notin LinesOf(last.ret)

\* the positions of the requests of the last pipeline call made for who
RequestsOf(who) == {i \in 1..Len(pipe.calls) : pipe.calls[i].who = who}

\* the generation requests of the last call that did not return text
FailedRequests(who) == {i \in RequestsOf(who) : pipe.calls[i].outcome.kind # "text"}

(* C18 as stated: in every batch_process run a failure of the writer or      *)
(* reviewer generation call of any kind (a raised exception, a quota or      *)
(* invalid-key error, an empty response) makes batch_process return status   *)
(* 'error' with the failure message in 'error'; after a writer failure the   *)
(* reviewer is never invoked; status 'completed' is returned only when both  *)
(* generation calls returned text; status 'processing' is never returned.    *)
C18_FailureIsError ==
    pipe.op = "batch_process" =>
        /\ (FailedRequests("writer") # {} \/ FailedRequests("reviewer") # {}) =>
              /\ pipe.ret.status = "error"
              /\ "error" \in DOMAIN pipe.ret
        /\ FailedRequests("writer") # {} => RequestsOf("reviewer") = {}
        /\ pipe.ret.status = "completed" =>
              /\ RequestsOf("writer") # {} /\ FailedRequests("writer") = {}
              /\ RequestsOf("reviewer") # {} /\ FailedRequests("reviewer") = {}
        /\ pipe.ret.status # "processing"

(* C19 as stated: in every batch_process run the reviewer generation call    *)
(* happens only after the writer generation call has returned text, the      *)
(* content given to the reviewer is exactly the writer's returned text       *)
(* (never an error message, never the original text), and each of the two    *)
(* generation calls is made at most once.                                    *)
C19_ReviewerAfterWriter ==
    pipe.op = "batch_process" =>
        /\ Cardinality(RequestsOf("writer")) <= 1
        /\ Cardinality(RequestsOf("reviewer")) <= 1
        /\ \A i \in RequestsOf("reviewer") :
              \E j \in RequestsOf("writer") :
                  /\ j < i
                  /\ pipe.calls[j].outcome.kind = "text"
                  /\ pipe.calls[i].prompt.content = Strip(pipe.calls[j].outcome.text)

(* C20 as stated: content that is empty or shorter than 10 characters after  *)
(* trimming is rejected with a content error before any request to the       *)
(* generation service is made, on every entry path: ai_writer, ai_reviewer,  *)
(* and batch_process including its API-key validation request.               *)
C20_ShortContentRejected ==
    (pipe.op \in {"ai_writer", "ai_reviewer", "batch_process"} /\ TooShort(pipe.content)) =>
        /\ pipe.calls = <<>>
        /\ IF pipe.op = "batch_process"
           THEN /\ pipe.ret.status = "error"
                /\ pipe.ret.error =
                      ErrorMessage("Content too short or empty for AI processing.")
           ELSE pipe.ret \in
                   {ErrorMessage("Content too short or empty for AI processing."),
                    ErrorMessage("Content too short or empty for AI review.")}

\* the text has no fragment between . ! ? that holds anything but blanks
Blank(text) == \A i \in 1..Len(text) : text[i] \in Terminators \cup Whitespace

SevenFeatures ==
    <<"avg_sentence_length", "sentence_variety", "dialogue_density",
      "descriptive_density", "transition_density", "avg_paragraph_length",
      "complexity_score">>

\* the fragments between terminators that hold more than blanks
Fragments(text) ==
    {i \in 1..Len(text) :
        /\ text[i] \notin Terminators \cup Whitespace
        /\ \A j \in 1..(i - 1) :
              text[j] \notin Terminators \cup Whitespace
                  => \E k \in (j + 1)..(i - 1) : text[k] \in Terminators}

\* a transition word stands in the text as a whole word
HasTransitionWord(text) ==
    \E i \in 1..Len(text) :
        /\ Lower(text[i]) \in Transitions
        /\ i > 1 => ~IsWord(text[i - 1])
        /\ i < Len(text) => ~IsWord(text[i + 1])

\* two quotes, which enclose a span
HasQuotedSpan(text) == \E i, j \in 1..Len(text) : i < j /\ text[i] = Quote /\ text[j] = Quote

\* C25: extract_text_patterns returns the empty mapping exactly for a text
\* that has no sentence fragment other than blanks; for every other text it
\* returns the seven features, in the order the source assigns them; for a
\* single sentence without a quoted span and without a transition word the
\* dialogue density and the transition density are 0; and a second call on
\* the same text returns what the first returned.
C25_Extract ==
    probe.calls > 0 =>
        /\ (probe.ret = EmptyDict) <=> Blank(probe.text)
        /\ probe.ret # EmptyDict =>
              [i \in 1..Len(probe.ret) |-> probe.ret[i].k] = SevenFeatures
        /\ (/\ Cardinality(Fragments(probe.text)) = 1
            /\ ~HasQuotedSpan(probe.text)
            /\ ~HasTransitionWord(probe.text))
              => /\ HasKey(probe.ret, "dialogue_density")
                 /\ Get(probe.ret, "dialogue_density") = 0
                 /\ HasKey(probe.ret, "transition_density")
                 /\ Get(probe.ret, "transition_density") = 0
        /\ probe.ret = probe.first

\* a single sentence with one quote and no transition word was analysed twice
C25_Witness ==
    /\ probe.calls = 2
    /\ probe.text = <<Quote, "day", ".">>
    /\ Len(probe.ret) = 7
    /\ Get(probe.ret, "dialogue_density") = 0

\* seconds since the session's cached result was stored
CacheAge(session, now) == (now - session.last_checked.val) * SecondsPerTick

\* the session holds a result for this key that is younger than 300 seconds
HasYoungResult(session, api_key, now) ==
    /\ session.cached_key = api_key
    /\ session.validated \in {"True", "False"}
    /\ session.last_checked.some
    /\ CacheAge(session, now) < 300

\* the key is set, starts with AIza and has 35 characters or more
KeyUsable(api_key) == api_key.set /\ api_key.prefix = "AIza" /\ api_key.len >= 35

\* a quota error or a network error
QuotaOrNetwork(outcome) == outcome \in {Raised(MsgQuota), Raised(MsgNetwork)}

C27_Step ==
    LET k == pipe.api_key
        s == pipe.session
        sent == pipe'.calls # <<>>
    IN  pipe'.op = "validate_api_key" =>
            \* a request exactly when the key is usable and no young result is held
            /\ sent <=> (KeyUsable(k) /\ ~HasYoungResult(s, k, pipe.now))
            /\ Len(pipe'.calls) <= 1
            \* a young result for the same key is returned as it is
            /\ (KeyUsable(k) /\ HasYoungResult(s, k, pipe.now)) =>
                    /\ pipe'.ret = <<s.validated = "True">>
                    /\ pipe'.session = s
            \* a result held for another key is dropped
            /\ (KeyUsable(k) /\ s.cached_key # k) =>
                    /\ pipe'.session.cached_key = k
                    /\ pipe'.session.validated # "None" =>
                            pipe'.session.last_checked = Some(pipe.now)
            \* no key, or a malformed one
            /\ ~KeyUsable(k) =>
                    /\ pipe'.ret = <<FALSE>>
                    /\ pipe'.session = s
            \* a quota or network error stores nothing
            /\ (sent /\ QuotaOrNetwork(pipe'.calls[1].outcome)) =>
                    /\ pipe'.ret = <<TRUE>>
                    /\ pipe'.session.last_checked = s.last_checked
                    /\ pipe'.session.validated =
                            IF s.cached_key = k THEN s.validated ELSE "None"

\* C27: validate_api_key sends its test request exactly when the key is set
\* and well-formed and the session holds no result for that key younger than
\* 300 seconds; a younger result for the same key is returned without a
\* request; a result held for another key is dropped; without a usable key
\* the answer is False and no request is made; on a quota or network error
\* the answer is True and no result is stored.
C27_KeyCheck == [][C27_Step]_vars

\* a result stored 300 seconds ago was found stale, the request ran into a
\* quota error, and the stale result is still held
C27_Witness ==
    /\ pipe.op = "validate_api_key"
    /\ pipe.calls = <<Request("validate", "Hi", Raised(MsgQuota))>>
    /\ pipe.ret = <<TRUE>>
    /\ pipe.session.validated = "False"
    /\ pipe.session.last_checked = Some(0)
    /\ pipe.now = 1

\* the prompts a run of batch_process has sent to the two agents
AgentPrompts(run) ==
    {run.calls[i].prompt : i \in {j \in 1..Len(run.calls) : run.calls[j].who \in AgentTypes}}

\* the runs batch_process can take on the present state of the agent
BatchRunsNow ==
    BatchProcess(TextPlain, "modern", None, GoodKey, NoCache, 0, state)

\* C28: in a state reached from the empty state by update and
\* reset_learning, the instructions for the writer and for the reviewer are
\* non-empty exactly when total_feedback >= 3; and in every run of
\* batch_process on such a state the flag adaptive_instructions_used is true
\* exactly when the prompts it sends carry the adaptive section.
C28_InstructionsFromThree ==
    fromEmpty =>
        /\ \A agent_type \in AgentTypes :
              (GetAdaptivePromptInstructions(state, agent_type) # <<>>)
                  <=> state.total_feedback >= 3
        /\ \A run \in BatchRunsNow :
              \A prompt \in AgentPrompts(run) :
                  prompt.adaptive <=> run.ret.adaptive_instructions_used

\* after as many Bad as Good updates, four or more in all, neither line of
\* the success rate applies, and the writer's instructions were read
C28_Witness ==
    /\ fromEmpty
    /\ state.total_feedback >= 4
    /\ 2 * state.good_feedback_count = state.total_feedback
    /\ last.op = "get_adaptive_prompt_instructions"
    /\ last.agent = "writer"
    /\ last.ret # <<>>

C29_Step ==
    (lastWrite = "ok" /\ last'.op \in {"load_state", "__init__"}) =>
        /\ last'.outcome = "ok"
        /\ state' = state
        /\ disk' = disk

\* C29: when the last update or reset_learning has written its snapshot, a
\* load_state that follows, in the constructor of a new process or at the top
\* of a script run, leaves the in-memory state as that operation left it
\* (counters, logs and weights, the weights as defaultdicts again), and
\* leaves the file as it is.
C29_RoundTrip == [][C29_Step]_vars

\* a script run has reloaded the snapshot two updates have written, back into
\* the state that holds their weights
C29_Witness ==
    /\ lastWrite = "ok"
    /\ last.op = "load_state"
    /\ last.outcome = "ok"
    /\ state.total_feedback = 2
    /\ state.pattern_weights.items # <<>>
    /\ SameAsSnapshot(state, disk.data)

\* both sessions are back from update
BothReturned == \A t \in Threads : At(t, "returned")

\* the weight the updates of the two threads add to a style, one after the other
StyleSum(style) ==
    LET add(t) == IF ArgsOf(t).style = style THEN KeyDelta(race.rating[t]) ELSE 0
    IN  add("A") + add("B")

\* the record of thread t stands in the history
RecordKept(t) ==
    \E i \in 1..Len(state.feedback_history) :
        LET rec == state.feedback_history[i]
        IN  [rec EXCEPT !.timestamp = 0] = [RecordOf(t, 0) EXCEPT !.timestamp = 0]

(* C22 as stated: when two sessions call update at the same time on the     *)
(* shared agent, which was empty, then after both have returned             *)
(* total_feedback is 2, both records are in feedback_history, each style    *)
(* weight holds the contributions of both calls, and the snapshot in the    *)
(* file equals the in-memory state.                                         *)
C22_SerialOutcome ==
    BothReturned =>
        /\ state.total_feedback = 2
        /\ Len(state.feedback_history) = 2
        /\ \A t \in Threads : RecordKept(t)
        /\ \A style \in {"modern", "classic"} :
              Get(state.style_preferences.items, style) = StyleSum(style)
        /\ disk.kind = "json" /\ SameAsSnapshot(state, disk.data)

\* the worker w has ended
Dead(w) == voice.worker[w].pc = "dead"

\* C23: stop_speaking called while nothing is playing raises nothing and
\* leaves nothing playing: is_speaking False, no engine, no worker running,
\* and a state that differs from the one it was called in by stop_requested
\* = True only, so that a second call leaves the state of the first.  The
\* text of a speak_text that follows such stops is spoken to its end.
C23_Step ==
    /\ (voice.call.op = "stop_speaking" /\ voice.idle_stop /\ voice'.call.op = "none")
          => /\ voice'.error = ""
             /\ NothingPlaying(voice')
             /\ Globals(voice') = [voice.before EXCEPT !.stop_requested = TRUE]
    /\ \A w \in Workers :
          (voice'.worker[w].clean > 0 /\ voice'.worker[w].pc = "dead")
             => /\ voice'.worker[w].spoken = voice'.worker[w].n
                /\ voice'.worker[w].error = ""

C23_StopWhenIdle == [][C23_Step]_vars

\* two stop_speaking calls with nothing playing, then a text spoken to its end
C23_Witness ==
    \E w \in Workers :
        /\ voice.worker[w].clean = 2
        /\ Dead(w)
        /\ voice.worker[w].spoken = MaxSentences
        /\ ~voice.is_speaking

\* a sentence starts in this step
SentenceStarts == \E w \in Workers : voice'.worker[w].spoken > voice.worker[w].spoken

\* no worker runs and is_speaking is False
PlaybackOver == (\A w \in Workers : ~Alive(voice, w)) /\ ~voice.is_speaking

\* C24: once stop_speaking has been called and while no speak_text follows it,
\* no sentence starts; and when no speak_text follows it at all, every worker
\* ends and is_speaking is False from some moment on.
C24_AfterStop ==
    /\ [][voice.stopped => ~SentenceStarts]_vars
    /\ (<>[]voice.stopped) => <>[]PlaybackOver

\* the worker of the last speak_text
Latest == voice.speaks

\* C26: once a later speak_text has started its worker, the worker of an
\* earlier one speaks no further sentence, and its cleanup does not set
\* is_speaking to False under a later worker that has set it.
C26_Step ==
    \A w \in Workers :
        /\ (voice'.worker[w].spoken > voice.worker[w].spoken) => w = Latest
        /\ (/\ w < Latest
            /\ voice.worker[w].pc = "finally" /\ voice'.worker[w].pc = "cleanup"
            /\ voice.worker[Latest].pc \notin {"init", "mark", "dead"})
              => ~voice.is_speaking

C26_OneWorker == [][C26_Step]_vars

\* the button Submit Feedback is pressed in this step
FeedbackSubmitted == sess'.submits > sess.submits

\* the item in flight was scraped, and the outputs held come from a run in
\* which the writer and then the reviewer succeeded on it
PipelineDone(s) ==
    /\ s.origin = "scraped"
    /\ s.stages = <<"writer", "reviewer">>
    /\ s.writer_output.of = s.original_text.of
    /\ s.reviewer_output.of = s.original_text.of

\* C21: update is invoked only while the feedback view is shown; the view is
\* shown only for an item that was scraped, written and reviewed with
\* success, in that order; and after a stage has failed scraping_status is
\* "error" and the view is not shown.
C21_Step ==
    /\ FeedbackSubmitted => AwaitingFeedback(sess)
    /\ AwaitingFeedback(sess') => PipelineDone(sess')
    /\ sess'.failed => (sess'.scraping_status = "error" /\ ~AwaitingFeedback(sess'))

C21_PipelineOrder == [][C21_Step]_vars

\* the text is empty or made from the item at url
MadeFrom(text, url) == text.text = <<>> \/ text.of = url

\* C30: the reviewer output held is made from the item whose URL and original
\* text the session holds, and every file a save button has written has the
\* URL of the item its reviewer output was made from.
C30_SameItem ==
    /\ MadeFrom(sess.reviewer_output, sess.url_processed)
    /\ MadeFrom(sess.reviewer_output, sess.original_text.of)
    /\ \A i \in 1..Len(sess.files) :
          MadeFrom(sess.files[i].reviewer_output, sess.files[i].source_url)

====
